---- MODULE Spec2Model ----
(***************************************************************************)
(* A model of the lowdown Markdown parser (document.c) and of the option   *)
(* handling of its command-line front end (main.c).                        *)
(*                                                                         *)
(* Spec is the document driver: lowdown_doc_parse building the node tree   *)
(* through pushnode/popnode.  The input is not modelled byte by byte       *)
(* there: every construct the block and inline parsers can recognise at    *)
(* the current position is an action, so a behaviour of Spec is the        *)
(* sequence of constructs of one input.  SpecInline runs the inline pass   *)
(* (parse_inline and its handlers) on byte strings.                        *)
(***************************************************************************)
EXTENDS Integers, Sequences, FiniteSets, TLC

VARIABLES
    doc,      \* struct lowdown_doc
    opts,     \* struct lowdown_opts: the command-line metadata queues
    tree,     \* the nodes allocated by the running (or last) parse
    heap,     \* live allocations: node structures and byte buffers
    stack,    \* call stack of the recursive-descent parser
    pc,       \* position of the driver
    ret,      \* what the last lowdown_doc_parse call returned
    ncalls,   \* number of lowdown_doc_parse calls started on this doc
    input,    \* the constructs the inputs given to this doc are made of
    data,     \* SpecInline: the span given to parse_inline
    out       \* SpecInline: what parse_inline produced for it

vars == <<doc, opts, tree, heap, stack, pc, ret, ncalls, input, data, out>>

(***************************************************************************)
(* Bounds of the model.                                                    *)
(***************************************************************************)
\* nodes created on one doc handle (plus input.more)
MaxNodes == 8
\* lowdown_doc_parse calls on one doc handle
MaxCalls == 2
\* footnote definitions in the input
MaxFootnotes == 2
\* key/value pairs in the metadata block
MaxMeta == 2
\* bytes in a span given to the inline pass
MaxLen == 4

NULL == 0

FootnoteNames == {"a", "b"}
MetaKeys == {"title", "author"}

\* The configurations a doc handle is created with and the inputs it is
\* given: the feature set, the maximum depth (0: unlimited), the
\* command-line metadata queues, the constructs the inputs are made of and
\* how many nodes beyond MaxNodes they may need.
Configs ==
    { [feat |-> {}, maxdepth |-> 3, meta |-> <<>>, metaovr |-> <<>>,
       input |-> [of |-> {"paragraph", "blockquote", "list", "text",
                          "emphasis"}, more |-> 0]],
      [feat |-> {"FOOTNOTES"}, maxdepth |-> 0, meta |-> <<>>, metaovr |-> <<>>,
       input |-> [of |-> {"paragraph", "footnote"}, more |-> 2]],
      [feat |-> {"DEFLIST"}, maxdepth |-> 4, meta |-> <<>>, metaovr |-> <<>>,
       input |-> [of |-> {"paragraph", "definition", "text"}, more |-> 3]],
      [feat |-> {"AUTOLINK"}, maxdepth |-> 0, meta |-> <<>>, metaovr |-> <<>>,
       input |-> [of |-> {"paragraph", "text", "link", "autolink"},
                  more |-> 0]],
      [feat |-> {"IMG_EXT"}, maxdepth |-> 0, meta |-> <<>>, metaovr |-> <<>>,
       input |-> [of |-> {"paragraph", "text", "image"}, more |-> 0]],
      [feat |-> {"METADATA"}, maxdepth |-> 0,
       meta |-> << [key |-> "title", value |-> "dflt"] >>,
       metaovr |-> << [key |-> "author", value |-> "ovr"] >>,
       input |-> [of |-> {"metadata", "paragraph", "text"}, more |-> 1]] }

(***************************************************************************)
(* Sequence helpers.                                                       *)
(***************************************************************************)
Last(s) == s[Len(s)]

Front(s) == SubSeq(s, 1, Len(s) - 1)

Range(s) == { s[i] : i \in 1..Len(s) }

\* s without its element at position i
RemoveAt(s, i) == SubSeq(s, 1, i - 1) \o SubSeq(s, i + 1, Len(s))

\* number of positions of s holding x
Occurrences(s, x) == Cardinality({ i \in 1..Len(s) : s[i] = x })

(***************************************************************************)
(* The heap.  Node structures are the elements <<"node", h>>, byte buffers *)
(* and list entries the elements <<"buf", k>>.                             *)
(***************************************************************************)
NoBufs == [f \in {} |-> NULL]

NewBuf(h) ==
    CHOOSE k \in 1..(Cardinality(h) + 1) :
        /\ <<"buf", k>> \notin h
        /\ \A j \in 1..(k - 1) : <<"buf", j>> \in h

\* The world an operation of the parser works on.
World ==
    [doc |-> doc, opts |-> opts, tree |-> tree, heap |-> heap,
     err |-> "none", b |-> NULL]

\* hbuf_new / xmalloc / xcalloc: the new allocation is left in w.b
hbuf_new(w) ==
    IF w.err # "none" THEN w
    ELSE LET k == NewBuf(w.heap)
         IN [w EXCEPT !.heap = @ \cup {<<"buf", k>>}, !.b = k]

\* hbuf_free / free: freeing NULL is a no-op, freeing twice is an error
hbuf_free(w, k) ==
    IF w.err # "none" \/ k = NULL THEN w
    ELSE IF <<"buf", k>> \notin w.heap THEN [w EXCEPT !.err = "double_free"]
    ELSE [w EXCEPT !.heap = @ \ {<<"buf", k>>}]

RECURSIVE hbuf_free_all(_, _)
hbuf_free_all(w, ks) ==
    IF ks = <<>> THEN w
    ELSE hbuf_free_all(hbuf_free(w, Head(ks)), Tail(ks))

(***************************************************************************)
(* pushnode, popnode, pushbuffer.                                          *)
(***************************************************************************)
\* a node whose id is taken from the depth, not from the node counter
NewNode_depth_id(d, t) ==
    [id |-> d.depth, type |-> t, parent |-> d.current, children |-> <<>>,
     num |-> 0, lines |-> 0, beoln |-> 0, flags |-> {}, level |-> 0,
     col |-> 0, columns |-> 0, link |-> <<>>, title |-> <<>>,
     lang |-> <<>>, str |-> "", bufs |-> NoBufs]

NewNode(d, t) ==
    [id |-> d.nodes, type |-> t, parent |-> d.current, children |-> <<>>,
     num |-> 0, lines |-> 0, beoln |-> 0, flags |-> {}, level |-> 0,
     col |-> 0, columns |-> 0, link |-> <<>>, title |-> <<>>,
     lang |-> <<>>, str |-> "", bufs |-> NoBufs]

pushnode(w, t) ==
    IF w.err # "none" THEN w
    ELSE LET d == w.doc
             d1 == [d EXCEPT !.depth = d.depth + 1]
         IN IF d.depth > d.maxdepth /\ d.maxdepth # 0
            THEN [w EXCEPT !.doc = d1, !.err = "fatal"]
            ELSE LET h == Len(w.tree) + 1
                     t1 == Append(w.tree, NewNode(d, t))
                     t2 == IF d.current # NULL
                           THEN [t1 EXCEPT ![d.current].children = Append(@, h)]
                           ELSE t1
                 IN [w EXCEPT !.doc = [d1 EXCEPT !.nodes = d.nodes + 1,
                                                 !.current = h],
                              !.tree = t2,
                              !.heap = @ \cup {<<"node", h>>}]

\* popnode leaving the depth as it is
popnode_keep_depth(w, n) ==
    IF w.err # "none" THEN w
    ELSE IF w.doc.depth = 0 THEN [w EXCEPT !.err = "assert"]
    ELSE IF w.doc.current # n THEN [w EXCEPT !.err = "assert"]
    ELSE [w EXCEPT !.doc.current = w.tree[n].parent]

popnode(w, n) ==
    IF w.err # "none" THEN w
    ELSE IF w.doc.depth = 0 THEN [w EXCEPT !.err = "assert"]
    ELSE IF w.doc.current # n
         THEN [w EXCEPT !.doc.depth = @ - 1, !.err = "assert"]
    ELSE [w EXCEPT !.doc.depth = @ - 1,
                   !.doc.current = w.tree[n].parent]

\* pushbuffer(&n->field, data, datasz): the field is zeroed, then filled
\* with a fresh copy when datasz > 0.  What the field held is not freed.
pushbuffer(w, n, field, datasz) ==
    IF w.err # "none" THEN w
    ELSE IF datasz = 0
         THEN [w EXCEPT !.tree[n].bufs = (field :> NULL) @@ @]
    ELSE LET w1 == hbuf_new(w)
         IN [w1 EXCEPT !.tree[n].bufs = (field :> w1.b) @@ @]

\* the node pushnode has just returned
Cur(w) == w.doc.current

SetStr(w, n, s) ==
    IF w.err # "none" THEN w ELSE [w EXCEPT !.tree[n].str = s]

(***************************************************************************)
(* Stack frames: the function that is running, its node n (what it will    *)
(* pop), the parser its body is in (ctx), its work buffers and locals.     *)
(***************************************************************************)
Frame(fn, n, ctx, bufs, aux) ==
    [fn |-> fn, n |-> n, ctx |-> ctx, bufs |-> bufs, aux |-> aux]

Top == Last(stack)

InBlock == pc = "body" /\ stack # <<>> /\ Top.ctx = "block"

InInline == pc = "body" /\ stack # <<>> /\ Top.ctx = "inline"

(***************************************************************************)
(* parse_metadata.  The metadata block is given as its entries: the key    *)
(* (already normalised) and whether a value follows the colon.  Only the   *)
(* last entry of a block can lack a value.                                 *)
(***************************************************************************)
MetaEntries == [key : MetaKeys, val : BOOLEAN]

MetaBlocks ==
    { es \in UNION { [1..k -> MetaEntries] : k \in 1..MaxMeta } :
        \A i \in 1..(Len(es) - 1) : es[i].val }

\* TAILQ_REMOVE then TAILQ_INSERT_HEAD of n in its parent's children
MoveToHead(children, n) ==
    <<n>> \o SelectSeq(children, LAMBDA x : x # n)

\* position of the first queue entry with the key, 0 when there is none
FindMeta(q, key) ==
    IF \E i \in 1..Len(q) : q[i].key = key
    THEN CHOOSE i \in 1..Len(q) :
            q[i].key = key /\ \A j \in 1..(i - 1) : q[j].key # key
    ELSE 0

\* m = xcalloc(1, sizeof(struct hbufn)), put at the tail of doc->metaq
meta_alloc(w) ==
    LET wm == hbuf_new(w)
    IN IF wm.err # "none" THEN wm
       ELSE [wm EXCEPT !.doc.metaq = Append(@, wm.b)]

\* the key of the META node just pushed; a command-line default with the
\* same key is dropped; a title is moved to the head of its siblings
meta_key(w, key) ==
    LET n == Cur(w)
        wk == hbuf_new(w)                                  \* key.data = malloc
        mi == FindMeta(w.opts.meta, key)
    IN IF wk.err # "none" THEN wk
       ELSE [wk EXCEPT !.tree[n].bufs = ("key" :> wk.b) @@ @,
                       !.tree[n].str = key,
                       !.opts.meta = IF mi # 0 THEN RemoveAt(@, mi) ELSE @,
                       !.tree[w.tree[n].parent].children =
                            IF key = "title" THEN MoveToHead(@, n) ELSE @]

\* a NORMAL_TEXT child of the current node holding the value s
meta_text(w, s) ==
    LET fill(w1, nn) ==
            popnode(SetStr(pushbuffer(w1, nn, "text", 1), nn, s), nn)
        pushed(w1) == fill(w1, Cur(w1))
    IN pushed(pushnode(w, "NORMAL_TEXT"))

\* the value of an entry: a command-line override with the same key
\* replaces the document's value and is dropped from its queue
meta_value(w, key) ==
    LET oi == FindMeta(w.opts.metaovr, key)
        wt == meta_text(w, IF oi # 0 THEN w.opts.metaovr[oi].value ELSE "doc")
    IN IF wt.err = "none" /\ oi # 0
       THEN [wt EXCEPT !.opts.metaovr = RemoveAt(@, oi)]
       ELSE wt

\* one iteration of the loop over the block's entries
parse_metadata_entry(w, e) ==
    LET value(w1, n) ==
            popnode(IF e.val THEN meta_value(w1, e.key) ELSE w1, n)
        keyed(w1) == value(w1, Cur(w1))
    IN keyed(meta_key(pushnode(meta_alloc(w), "META"), e.key))

RECURSIVE parse_metadata_loop(_, _)
parse_metadata_loop(w, es) ==
    IF es = <<>> THEN w
    ELSE parse_metadata_loop(parse_metadata_entry(w, Head(es)), Tail(es))

\* an entry left in a command-line queue becomes a META node
meta_from_queue(w, md) ==
    LET value(w1, n) ==
            popnode(meta_text(SetStr(pushbuffer(w1, n, "key", 1), n, md.key),
                              md.value), n)
        pushed(w1) == value(w1, Cur(w1))
    IN pushed(pushnode(meta_alloc(w), "META"))

RECURSIVE parse_metadata_queue(_, _)
parse_metadata_queue(w, q) ==
    IF q = <<>> THEN w
    ELSE parse_metadata_queue(meta_from_queue(w, Head(q)), Tail(q))

\* the queue of defaults, then the queue of overrides, are emptied into
\* META nodes
meta_defaults(w) ==
    LET w1 == parse_metadata_queue(w, w.opts.meta)
    IN IF w1.err # "none" THEN w1 ELSE [w1 EXCEPT !.opts.meta = <<>>]

meta_overrides(w) ==
    LET w1 == parse_metadata_queue(w, w.opts.metaovr)
    IN IF w1.err # "none" THEN w1 ELSE [w1 EXCEPT !.opts.metaovr = <<>>]

parse_metadata(w, es) ==
    meta_overrides(meta_defaults(parse_metadata_loop(w, es)))

(***************************************************************************)
(* Footnotes.                                                              *)
(***************************************************************************)
\* position of the first footnote with the name, 0 when there is none
find_footnote_ref(q, name) ==
    IF \E i \in 1..Len(q) : q[i].name = name
    THEN CHOOSE i \in 1..Len(q) :
            q[i].name = name /\ \A j \in 1..(i - 1) : q[j].name # name
    ELSE 0

RECURSIVE free_footnote_refs(_)
free_footnote_refs(w) ==
    IF w.err # "none" \/ w.doc.footnotes = <<>> THEN w
    ELSE LET r == Head(w.doc.footnotes)
             w1 == [w EXCEPT !.doc.footnotes = Tail(@)]
         IN free_footnote_refs(
                hbuf_free(hbuf_free(hbuf_free(w1, r.contents), r.nameb), r.ref))

\* the scan of parse_footnote_list stopping one ordinal early
RECURSIVE footnote_scan_short(_, _, _)
footnote_scan_short(d, i, j) ==
    IF i >= d.footnotesz THEN <<>>
    ELSE IF j > Len(d.footnotes) THEN footnote_scan_short(d, i + 1, 1)
    ELSE IF d.footnotes[j].num = i /\ d.footnotes[j].is_used = 1
         THEN <<i, j>>
    ELSE footnote_scan_short(d, i, j + 1)

\* where the loops of parse_footnote_list, resumed at ordinal i and list
\* position j, next find a used footnote with ordinal i: <<i, j>>, or <<>>
RECURSIVE footnote_scan(_, _, _)
footnote_scan(d, i, j) ==
    IF i > d.footnotesz THEN <<>>
    ELSE IF j > Len(d.footnotes) THEN footnote_scan(d, i + 1, 1)
    ELSE IF d.footnotes[j].num = i /\ d.footnotes[j].is_used = 1
         THEN <<i, j>>
    ELSE footnote_scan(d, i, j + 1)

(***************************************************************************)
(* lowdown_node_free.                                                      *)
(***************************************************************************)
FreedFields(type) ==
    CASE type = "META" -> <<"key">>
      [] type = "NORMAL_TEXT" -> <<"text">>
      [] type = "CODESPAN" -> <<"text">>
      [] type = "LINK_AUTO" -> <<"text", "link">>
      [] type = "TABLE_HEADER" -> <<"flags">>
      [] type = "MATH_BLOCK" -> <<"text">>
      [] type = "LINK" -> <<"link", "title">>
      [] type = "IMAGE" ->
            <<"link", "title", "dims", "alt", "attr_width", "attr_height">>
      [] OTHER -> <<>>

RECURSIVE lowdown_node_free(_, _)
RECURSIVE lowdown_node_free_children(_, _)
lowdown_node_free(w, root) ==
    IF w.err # "none" \/ root = NULL THEN w
    ELSE LET nd == w.tree[root]
             fl == FreedFields(nd.type)
             ks == [i \in 1..Len(fl) |->
                        IF fl[i] \in DOMAIN nd.bufs THEN nd.bufs[fl[i]]
                        ELSE NULL]
             w1 == hbuf_free_all(w, ks)
             w2 == lowdown_node_free_children(w1, nd.children)
         IN IF w2.err # "none" THEN w2
            ELSE IF <<"node", root>> \notin w2.heap
                 THEN [w2 EXCEPT !.err = "double_free"]
            ELSE [w2 EXCEPT !.heap = @ \ {<<"node", root>>}]

lowdown_node_free_children(w, cs) ==
    IF cs = <<>> THEN w
    ELSE lowdown_node_free_children(lowdown_node_free(w, Head(cs)), Tail(cs))

(***************************************************************************)
(* The node budget: a construct is only started when the nodes the code    *)
(* must still create after it (the footnote definitions of the footnotes   *)
(* already referenced, their block, DOC_FOOTER) fit below MaxNodes.        *)
(***************************************************************************)
NodesOfType(t, type) == { h \in 1..Len(t) : t[h].type = type }

Reserve(w) ==
    LET used == { j \in 1..Len(w.doc.footnotes) :
                     w.doc.footnotes[j].is_used = 1 }
        defs == NodesOfType(w.tree, "FOOTNOTE_DEF")
    IN 1 + (Cardinality(used) - Cardinality(defs))
         + (IF used # {} /\ NodesOfType(w.tree, "FOOTNOTES_BLOCK") = {}
            THEN 1 ELSE 0)

Fits(w) ==
    w.err # "none" \/ w.doc.nodes + Reserve(w) <= MaxNodes + input.more

\* the step to world w, stack s and driver position p; an error ends the run
Commit(w, s, p) ==
    /\ doc' = w.doc
    /\ opts' = w.opts
    /\ tree' = w.tree
    /\ heap' = w.heap
    /\ stack' = IF w.err # "none" THEN <<>> ELSE s
    /\ pc' = IF w.err # "none" THEN w.err ELSE p

(***************************************************************************)
(* lowdown_doc_new and lowdown_doc_parse.                                  *)
(***************************************************************************)
lowdown_doc_new(cfg) ==
    [depth |-> 0, maxdepth |-> cfg.maxdepth, nodes |-> 0, current |-> NULL,
     in_link_body |-> 0, footnotesz |-> 0, footnotes |-> <<>>,
     refq |-> <<>>, metaq |-> <<>>, ext_flags |-> cfg.feat]

Init ==
    /\ \E cfg \in Configs :
          /\ doc = lowdown_doc_new(cfg)
          /\ opts = [meta |-> cfg.meta, metaovr |-> cfg.metaovr]
          /\ input = cfg.input
    /\ tree = <<>>
    /\ heap = {}
    /\ stack = <<>>
    /\ pc = "idle"
    /\ ret = [root |-> NULL, maxn |-> 0]
    /\ ncalls = 0
    /\ data = <<>>
    /\ out = <<>>

\* lowdown_doc_parse up to the first pass: reset, ROOT, DOC_HEADER and the
\* metadata block es (<<>>: the input does not start with one)
doc_parse_begin(w, es) ==
    LET reset(w0) ==
            [w0 EXCEPT !.doc.depth = 0, !.doc.current = NULL,
                       !.doc.in_link_body = 0]
        queues(w2) ==
            IF w2.err # "none" THEN w2
            ELSE [w2 EXCEPT !.doc.metaq = <<>>, !.doc.footnotes = <<>>,
                            !.doc.refq = <<>>, !.doc.footnotesz = 0]
        header(w4) == IF es # <<>> THEN parse_metadata(w4, es) ELSE w4
    IN header(pushnode(queues(pushnode(hbuf_new(reset(w)),   \* text
                                       "ROOT")), "DOC_HEADER"))

DocParse(es) ==
    /\ pc = "idle"
    /\ ncalls < MaxCalls
    /\ es # <<>> => "METADATA" \in doc.ext_flags /\ "metadata" \in input.of
    /\ \E w \in {doc_parse_begin(World, es)} :
          /\ Fits(w)
          /\ Commit(w, << Frame("lowdown_doc_parse", 2, "first_pass",
                                <<hbuf_new(World).b>>, <<1>>) >>,
                    "first_pass")
    /\ ncalls' = ncalls + 1
    /\ ret' = [root |-> NULL, maxn |-> 0]
    /\ UNCHANGED <<input, data, out>>

\* is_footnote accepting a definition "[^name]: ..." in the first pass
is_footnote(w, name) ==
    LET ref(w1, w2, w3) ==
            [w3 EXCEPT !.doc.footnotes =
                Append(@, [name |-> name, is_used |-> 0, num |-> 0,
                           contents |-> w1.b, ref |-> w2.b, nameb |-> w3.b])]
        named(w1, w2) == ref(w1, w2, hbuf_new(w2))         \* ref->name
        alloc(w1) == named(w1, hbuf_new(w1))               \* ref = xcalloc
    IN alloc(hbuf_new(w))                                  \* contents

IsFootnote(name) ==
    /\ pc = "first_pass"
    /\ "footnote" \in input.of
    /\ "FOOTNOTES" \in doc.ext_flags
    /\ Len(doc.footnotes) < MaxFootnotes
    /\ Commit(is_footnote(World, name), stack, pc)
    /\ UNCHANGED <<ret, ncalls, input, data, out>>

\* end of the first pass: DOC_HEADER is popped, parse_block is entered
FirstPassEnd ==
    /\ pc = "first_pass"
    /\ Commit(popnode(World, Top.n),
              <<[Top EXCEPT !.ctx = "block"]>>, "body")
    /\ UNCHANGED <<ret, ncalls, input, data, out>>

\* the loop freeing the entries of doc->metaq
free_metaq(w) ==
    LET w1 == hbuf_free_all(w, w.doc.metaq)
    IN IF w1.err # "none" THEN w1 ELSE [w1 EXCEPT !.doc.metaq = <<>>]

\* assert(doc->depth == 0)
depth_is_zero(w) ==
    IF w.err = "none" /\ w.doc.depth # 0 THEN [w EXCEPT !.err = "assert"]
    ELSE w

\* lowdown_doc_parse ending without a DOC_FOOTER
doc_parse_end_no_footer(w, f) ==
    depth_is_zero(
        popnode(free_metaq(free_footnote_refs(hbuf_free(w, f.bufs[1]))),
                f.aux[1]))

\* the rest of lowdown_doc_parse after parse_footnote_list
doc_parse_end(w, f) ==
    LET footer(w1) == popnode(w1, Cur(w1))
    IN depth_is_zero(
           popnode(free_metaq(free_footnote_refs(
                       hbuf_free(footer(pushnode(w, "DOC_FOOTER")),
                                 f.bufs[1]))),
                   f.aux[1]))

\* lowdown_doc_parse returns the root and, through maxn, doc->nodes
DocParseReturn(w, f) ==
    \E w1 \in {doc_parse_end(w, f)} :
       /\ Commit(w1, <<>>, "done")
       /\ ret' = IF w1.err # "none" THEN ret
                 ELSE [root |-> f.aux[1], maxn |-> w1.doc.nodes]

\* parse_footnote_def up to the parsing of the footnote's contents
parse_footnote_def(w, num) ==
    LET w1 == pushnode(w, "FOOTNOTE_DEF")
    IN IF w1.err # "none" THEN w1
       ELSE [w1 EXCEPT !.tree[Cur(w1)].num = num]

\* parse_footnote_list resumed at ordinal i and list position j, with n the
\* FOOTNOTES_BLOCK node (NULL: not pushed yet); f is the driver's frame
FootnoteListFrom(w, f, n, i, j) ==
    LET pos == footnote_scan(w.doc, i, j)
    IN IF w.err = "none" /\ pos # <<>>
       THEN \E w1 \in {IF n = NULL THEN pushnode(w, "FOOTNOTES_BLOCK")
                        ELSE w} :
            \E w3 \in {parse_footnote_def(w1, w.doc.footnotes[pos[2]].num)} :
               /\ Commit(w3, << f,
                                Frame("parse_footnote_list",
                                      IF n = NULL THEN Cur(w1) ELSE n, "ret",
                                      <<>>, <<pos[1], pos[2] + 1>>),
                                Frame("parse_footnote_def", Cur(w3), "block",
                                      <<>>, <<>>) >>, "body")
               /\ UNCHANGED ret
       ELSE DocParseReturn(IF n # NULL THEN popnode(w, n) ELSE w, f)

\* parse_block of the whole text has returned
BodyEnd ==
    /\ InBlock
    /\ Top.fn = "lowdown_doc_parse"
    /\ IF "FOOTNOTES" \in doc.ext_flags
       THEN FootnoteListFrom(World, Top, NULL, 0, 1)
       ELSE DocParseReturn(World, Top)
    /\ UNCHANGED <<ncalls, input, data, out>>

\* parse_block of a footnote's contents has returned to parse_footnote_def
FootnoteDefEnd ==
    /\ InBlock
    /\ Top.fn = "parse_footnote_def"
    /\ LET lf == stack[Len(stack) - 1]
       IN FootnoteListFrom(popnode(World, Top.n), stack[1],
                           lf.n, lf.aux[1], lf.aux[2])
    /\ UNCHANGED <<ncalls, input, data, out>>

\* the caller releases the returned tree
NodeFree ==
    /\ pc = "done"
    /\ \E w \in {lowdown_node_free(World, ret.root)} :
          Commit([w EXCEPT !.tree = IF w.err = "none" THEN <<>> ELSE @],
                 <<>>, "idle")
    /\ ret' = [ret EXCEPT !.root = NULL]
    /\ UNCHANGED <<ncalls, input, data, out>>

(***************************************************************************)
(* The block parser: parse_block dispatching on the block at the current   *)
(* offset.                                                                 *)
(***************************************************************************)
Call(w, f) == Commit(w, Append(stack, f), "body")

Return(w) == Commit(w, Front(stack), "body")

\* parse_paragraph: a paragraph of one or more lines; its text is parsed
\* inline
parse_paragraph(w, lines) ==
    LET w1 == pushnode(w, "PARAGRAPH")
    IN IF w1.err # "none" THEN w1
       ELSE [w1 EXCEPT !.tree[Cur(w1)].lines = lines]

ParagraphBegin(lines) ==
    /\ InBlock
    /\ "paragraph" \in input.of
    /\ LET w == parse_paragraph(World, lines)
       IN /\ Fits(w)
          /\ Call(w, Frame("parse_paragraph", Cur(w), "inline", <<>>, <<>>))
    /\ UNCHANGED <<ret, ncalls, input, data, out>>

ParagraphEnd ==
    /\ InInline
    /\ Top.fn = "parse_paragraph"
    /\ Return(popnode(World, Top.n))
    /\ UNCHANGED <<ret, ncalls, input, data, out>>

\* parse_blockquote: the quoted lines are parsed as blocks
BlockquoteBegin ==
    /\ InBlock
    /\ "blockquote" \in input.of
    /\ LET w == pushnode(World, "BLOCKQUOTE")
       IN /\ Fits(w)
          /\ Call(w, Frame("parse_blockquote", Cur(w), "block", <<>>, <<>>))
    /\ UNCHANGED <<ret, ncalls, input, data, out>>

BlockquoteEnd ==
    /\ InBlock
    /\ Top.fn = "parse_blockquote"
    /\ Return(popnode(World, Top.n))
    /\ UNCHANGED <<ret, ncalls, input, data, out>>

\* parse_listitem pushing its LISTITEM inside a second LISTITEM
parse_listitem_nested(w) ==
    pushnode(pushnode(hbuf_new(w), "LISTITEM"), "LISTITEM")

\* parse_listitem up to the parsing of the item's contents
parse_listitem(w) ==
    pushnode(hbuf_new(w), "LISTITEM")

\* the frame of parse_listitem called in world w: its node and work buffer
ListitemFrame(w, mode) ==
    Frame("parse_listitem", Cur(parse_listitem(w)), mode,
          <<hbuf_new(w).b>>, <<>>)

\* a tight item with a nested list: the first chunk was parsed inline, the
\* rest is parsed as blocks
ListitemSublist ==
    /\ InInline
    /\ Top.fn = "parse_listitem"
    /\ Commit(World, Append(Front(stack), [Top EXCEPT !.ctx = "block"]),
              "body")
    /\ UNCHANGED <<ret, ncalls, input, data, out>>

ListitemEnd ==
    /\ pc = "body" /\ stack # <<>>
    /\ Top.fn = "parse_listitem"
    /\ Return(hbuf_free(popnode(World, Top.n), Top.bufs[1]))
    /\ UNCHANGED <<ret, ncalls, input, data, out>>

\* parse_list: LIST and its first item
ListBegin(mode) ==
    /\ InBlock
    /\ "list" \in input.of
    /\ LET w1 == pushnode(hbuf_new(World), "LIST")
           w2 == parse_listitem(w1)
       IN /\ Fits(w2)
          /\ Commit(w2, stack \o
                 << Frame("parse_list", Cur(w1), "ret",
                          <<hbuf_new(World).b>>, <<>>),
                    ListitemFrame(w1, mode) >>, "body")
    /\ UNCHANGED <<ret, ncalls, input, data, out>>

ListNext(mode) ==
    /\ pc = "body" /\ stack # <<>>
    /\ Top.fn = "parse_list"
    /\ LET w == parse_listitem(World)
       IN /\ Fits(w)
          /\ Call(w, ListitemFrame(World, mode))
    /\ UNCHANGED <<ret, ncalls, input, data, out>>

ListEnd ==
    /\ pc = "body" /\ stack # <<>>
    /\ Top.fn = "parse_list"
    /\ Return(hbuf_free(popnode(World, Top.n), Top.bufs[1]))
    /\ UNCHANGED <<ret, ncalls, input, data, out>>

\* what parse_block requires before it calls parse_definition
CanDefine(w) ==
    /\ "DEFLIST" \in w.doc.ext_flags
    /\ w.doc.current # NULL
    /\ w.tree[w.doc.current].children # <<>>
    /\ LET n == Last(w.tree[w.doc.current].children)
       IN w.tree[n].type = "PARAGRAPH" /\ w.tree[n].lines = 1

\* parse_definition without the TAILQ_REMOVE of the paragraph
parse_definition_no_remove(w) ==
    LET w0 == hbuf_new(w)
        cs == w0.tree[w0.doc.current].children
        cur == Last(cs)
        prev == IF Len(cs) > 1 THEN cs[Len(cs) - 1] ELSE NULL
        w1 == IF prev # NULL /\ w0.tree[prev].type = "DEFINITION"
              THEN [w0 EXCEPT !.doc.current = prev, !.doc.depth = @ + 1]
              ELSE pushnode(w0, "DEFINITION")
        n == Cur(w1)
    IN IF w1.err # "none" THEN w1
       ELSE LET t2 == [w1.tree EXCEPT ![n].children = Append(@, cur)]
            IN [w1 EXCEPT !.tree =
                    [t2 EXCEPT ![cur].type = "DEFINITION_TITLE",
                               ![cur].parent = n]]

\* parse_definition up to its loop: the preceding one-line paragraph
\* becomes the DEFINITION_TITLE of a new DEFINITION, or of the DEFINITION
\* just before it
parse_definition(w) ==
    LET w0 == hbuf_new(w)                                  \* work
        cs == w0.tree[w0.doc.current].children
        cur == Last(cs)
        prev == IF Len(cs) > 1 THEN cs[Len(cs) - 1] ELSE NULL
        w1 == IF prev # NULL /\ w0.tree[prev].type = "DEFINITION"
              THEN [w0 EXCEPT !.doc.current = prev, !.doc.depth = @ + 1]
              ELSE pushnode(w0, "DEFINITION")
        n == Cur(w1)
        p == w1.tree[cur].parent
    IN IF w1.err # "none" THEN w1
       ELSE LET t1 == [w1.tree EXCEPT ![p].children =
                            SelectSeq(@, LAMBDA x : x # cur)]
                t2 == [t1 EXCEPT ![n].children = Append(@, cur)]
            IN [w1 EXCEPT !.tree =
                    [t2 EXCEPT ![cur].type = "DEFINITION_TITLE",
                               ![cur].parent = n]]

DefinitionBegin(mode) ==
    /\ InBlock
    /\ "definition" \in input.of
    /\ CanDefine(World)
    /\ LET w1 == parse_definition(World)
           w2 == pushnode(w1, "DEFINITION_DATA")
           w3 == parse_listitem(w2)
       IN /\ Fits(w3)
          /\ Commit(w3, stack \o
                 << Frame("parse_definition", Cur(w1), "ret",
                          <<hbuf_new(World).b>>, <<Cur(w2)>>),
                    ListitemFrame(w2, mode) >>, "body")
    /\ UNCHANGED <<ret, ncalls, input, data, out>>

DefinitionNext(mode) ==
    /\ pc = "body" /\ stack # <<>>
    /\ Top.fn = "parse_definition"
    /\ LET w1 == popnode(World, Top.aux[1])
           w2 == pushnode(w1, "DEFINITION_DATA")
           w3 == parse_listitem(w2)
       IN /\ Fits(w3)
          /\ Commit(w3, Front(stack) \o
                 << [Top EXCEPT !.aux = <<Cur(w2)>>],
                    ListitemFrame(w2, mode) >>, "body")
    /\ UNCHANGED <<ret, ncalls, input, data, out>>

DefinitionEnd ==
    /\ pc = "body" /\ stack # <<>>
    /\ Top.fn = "parse_definition"
    /\ Return(hbuf_free(popnode(popnode(World, Top.aux[1]), Top.n),
                        Top.bufs[1]))
    /\ UNCHANGED <<ret, ncalls, input, data, out>>

(***************************************************************************)
(* The inline parser: parse_inline and the handlers of the active bytes.   *)
(***************************************************************************)
\* a run of inactive bytes becomes a NORMAL_TEXT node
normal_text(w) ==
    LET w1 == pushnode(w, "NORMAL_TEXT")
    IN popnode(pushbuffer(w1, Cur(w1), "text", 1), Cur(w1))

NormalText ==
    /\ InInline
    /\ "text" \in input.of
    /\ LET w == normal_text(World)
       IN Fits(w) /\ Commit(w, stack, "body")
    /\ UNCHANGED <<ret, ncalls, input, data, out>>

\* parse_emph1 finding its closing delimiter
EmphasisBegin ==
    /\ InInline
    /\ "emphasis" \in input.of
    /\ LET w == pushnode(World, "EMPHASIS")
       IN /\ Fits(w)
          /\ Call(w, Frame("parse_emph1", Cur(w), "inline", <<>>, <<>>))
    /\ UNCHANGED <<ret, ncalls, input, data, out>>

EmphasisEnd ==
    /\ InInline
    /\ Top.fn = "parse_emph1"
    /\ Return(popnode(World, Top.n))
    /\ UNCHANGED <<ret, ncalls, input, data, out>>

\* char_link on an inline-form link "[text](url)" with non-empty text, up
\* to the inline parse of the text
char_link_open(w) ==
    LET w1 == pushnode(hbuf_new(w), "LINK")                \* link = linkp
    IN IF w1.err # "none" THEN w1
       ELSE [w1 EXCEPT !.doc.in_link_body = 1]

\* char_link after the inline parse of the text
char_link_close(w, n, linkp) ==
    LET w1 == IF w.err # "none" THEN w
              ELSE [w EXCEPT !.doc.in_link_body = 0]
        w2 == hbuf_new(w1)                                 \* u_link
        w3 == popnode(pushbuffer(w2, n, "link", 1), n)
    IN hbuf_free(hbuf_free(w3, linkp), w2.b)

LinkBegin ==
    /\ InInline
    /\ "link" \in input.of
    /\ LET w == char_link_open(World)
       IN /\ Fits(w)
          /\ Call(w, Frame("char_link", Cur(w), "inline",
                           <<hbuf_new(World).b>>, <<>>))
    /\ UNCHANGED <<ret, ncalls, input, data, out>>

LinkEnd ==
    /\ InInline
    /\ Top.fn = "char_link"
    /\ Return(char_link_close(World, Top.n, Top.bufs[1]))
    /\ UNCHANGED <<ret, ncalls, input, data, out>>

\* parse_image_attrs storing the recognised attributes of "{...}"
RECURSIVE parse_image_attrs(_, _, _)
parse_image_attrs(w, n, attrs) ==
    IF attrs = <<>> THEN w
    ELSE parse_image_attrs(pushbuffer(w, n, Head(attrs), 1), n, Tail(attrs))

ImageAttrs ==
    { <<>>, <<"attr_width">>, <<"attr_width", "attr_height">>,
      <<"attr_width", "attr_width">> }

\* char_image and char_link on "![alt](url)", then parse_inline's handling
\* of an attribute block after the image
char_image(w, attrs) ==
    LET w1 == hbuf_new(w)                                  \* link = linkp
        w2 == pushnode(w1, "IMAGE")
        n == Cur(w2)
        w3 == hbuf_new(w2)                                 \* content
        w4 == hbuf_new(w3)                                 \* u_link
        w5 == pushbuffer(pushbuffer(w4, n, "link", 1), n, "alt", 1)
        w6 == popnode(w5, n)
        w7 == hbuf_free(hbuf_free(hbuf_free(w6, w1.b), w3.b), w4.b)
    IN parse_image_attrs(w7, n, attrs)

Image(attrs) ==
    /\ InInline
    /\ "image" \in input.of
    /\ attrs # <<>> => "IMG_EXT" \in doc.ext_flags
    /\ LET w == char_image(World, attrs)
       IN Fits(w) /\ Commit(w, stack, "body")
    /\ UNCHANGED <<ret, ncalls, input, data, out>>

\* char_autolink_www on a bare "www." host.  The text is pushed into the
\* LINK node n, not into its NORMAL_TEXT child nn.
char_autolink_www(w) ==
    LET w1 == hbuf_new(w)                                  \* link
        w2 == hbuf_new(w1)                                 \* link_url
        w3 == pushnode(w2, "LINK")
        n == Cur(w3)
        w4 == pushbuffer(w3, n, "link", 1)
        w5 == pushnode(w4, "NORMAL_TEXT")
        nn == Cur(w5)
        w6 == pushbuffer(w5, n, "text", 1)
        w7 == popnode(popnode(w6, nn), n)
    IN hbuf_free(hbuf_free(w7, w2.b), w1.b)

AutolinkWww ==
    /\ InInline
    /\ "autolink" \in input.of
    /\ "AUTOLINK" \in doc.ext_flags
    /\ doc.in_link_body = 0
    /\ LET w == char_autolink_www(World)
       IN Fits(w) /\ Commit(w, stack, "body")
    /\ UNCHANGED <<ret, ncalls, input, data, out>>

\* char_autolink_url on a bare URL
char_autolink_url(w) ==
    LET w1 == hbuf_new(w)                                  \* link
        w2 == pushnode(w1, "LINK_AUTO")
        n == Cur(w2)
        w3 == popnode(pushbuffer(w2, n, "link", 1), n)
    IN hbuf_free(w3, w1.b)

AutolinkUrl ==
    /\ InInline
    /\ "autolink" \in input.of
    /\ "AUTOLINK" \in doc.ext_flags
    /\ doc.in_link_body = 0
    /\ LET w == char_autolink_url(World)
       IN Fits(w) /\ Commit(w, stack, "body")
    /\ UNCHANGED <<ret, ncalls, input, data, out>>

\* char_link on a footnote reference, not marking the definition used
char_link_footnote_unmarked(w, name) ==
    LET fr == find_footnote_ref(w.doc.footnotes, name)
    IN IF fr # 0 /\ w.doc.footnotes[fr].is_used = 0
       THEN LET w1 == pushnode(w, "FOOTNOTE_REF")
                n == Cur(w1)
                num == w.doc.footnotesz + 1
            IN IF w1.err # "none" THEN w1
               ELSE popnode([w1 EXCEPT !.doc.footnotesz = num,
                                       !.doc.footnotes[fr].num = num,
                                       !.tree[n].num = num], n)
       ELSE LET w1 == pushnode(w, "NORMAL_TEXT")
                n == Cur(w1)
            IN popnode(SetStr(pushbuffer(w1, n, "text", 1), n, name), n)

\* char_link on a footnote reference "[^name]"
char_link_footnote(w, name) ==
    LET fr == find_footnote_ref(w.doc.footnotes, name)
    IN IF fr # 0 /\ w.doc.footnotes[fr].is_used = 0
       THEN LET w1 == pushnode(w, "FOOTNOTE_REF")
                n == Cur(w1)
                num == w.doc.footnotesz + 1
            IN IF w1.err # "none" THEN w1
               ELSE popnode([w1 EXCEPT !.doc.footnotesz = num,
                                       !.doc.footnotes[fr].num = num,
                                       !.doc.footnotes[fr].is_used = 1,
                                       !.tree[n].num = num], n)
       ELSE LET w1 == pushnode(w, "NORMAL_TEXT")
                n == Cur(w1)
            IN popnode(SetStr(pushbuffer(w1, n, "text", 1), n, name), n)

FootnoteRef(name) ==
    /\ InInline
    /\ "footnote" \in input.of
    /\ "FOOTNOTES" \in doc.ext_flags
    /\ LET w == char_link_footnote(World, name)
       IN Fits(w) /\ Commit(w, stack, "body")
    /\ UNCHANGED <<ret, ncalls, input, data, out>>

\* a second line only matters where a definition list can follow
ParagraphLines == IF "definition" \in input.of THEN 1..2 ELSE {1}

Modes == {"inline", "block"}

Next ==
    \/ \E es \in MetaBlocks \cup {<<>>} : DocParse(es)
    \/ \E name \in FootnoteNames : IsFootnote(name)
    \/ FirstPassEnd
    \/ \E lines \in ParagraphLines : ParagraphBegin(lines)
    \/ ParagraphEnd
    \/ BlockquoteBegin
    \/ BlockquoteEnd
    \/ \E mode \in Modes : ListBegin(mode)
    \/ \E mode \in Modes : ListNext(mode)
    \/ ListEnd
    \/ ListitemSublist
    \/ ListitemEnd
    \/ \E mode \in Modes : DefinitionBegin(mode)
    \/ \E mode \in Modes : DefinitionNext(mode)
    \/ DefinitionEnd
    \/ NormalText
    \/ EmphasisBegin
    \/ EmphasisEnd
    \/ LinkBegin
    \/ LinkEnd
    \/ \E attrs \in ImageAttrs : Image(attrs)
    \/ AutolinkWww
    \/ AutolinkUrl
    \/ \E name \in FootnoteNames : FootnoteRef(name)
    \/ BodyEnd
    \/ FootnoteDefEnd
    \/ NodeFree

Spec == Init /\ [][Next]_vars

(***************************************************************************)
(* The inline pass byte by byte.  A span is a sequence of bytes; the byte  *)
(* the code calls data[k] is B(d, k).                                      *)
(***************************************************************************)
B(d, k) == d[k + 1]

\* the backtick byte (the one byte a string of this notation cannot hold)
Tick == "tick"

\* data + k as a span of its own
From(d, k) == SubSeq(d, k + 1, Len(d))

\* the first n bytes of the span
Take(d, n) == SubSeq(d, 1, n)

xisspace(c) == c \in {" ", "\n"}

\* an active_char table in which "~" is active without STRIKE
active_char_tilde(d, c) ==
    CASE c \in {"*", "_", "~"} -> "char_emphasis"
      [] c = "=" /\ "HILITE" \in d.ext_flags -> "char_emphasis"
      [] c = Tick -> "char_codespan"
      [] c = "\n" -> "char_linebreak"
      [] c = "[" -> "char_link"
      [] c = "!" -> "char_image"
      [] c = "<" -> "char_langle_tag"
      [] c = "\\" -> "char_escape"
      [] c = "&" -> "char_entity"
      [] c = ":" /\ "AUTOLINK" \in d.ext_flags -> "char_autolink_url"
      [] c = "@" /\ "AUTOLINK" \in d.ext_flags -> "char_autolink_email"
      [] c = "w" /\ "AUTOLINK" \in d.ext_flags -> "char_autolink_www"
      [] c = "^" /\ "SUPER" \in d.ext_flags -> "char_superscript"
      [] c = "$" /\ "MATH" \in d.ext_flags -> "char_math"
      [] OTHER -> "none"

\* doc->active_char as lowdown_doc_new fills it in: the handler of byte c,
\* "none" for a byte that is not active
active_char(d, c) ==
    CASE c \in {"*", "_"} -> "char_emphasis"
      [] c = "~" /\ "STRIKE" \in d.ext_flags -> "char_emphasis"
      [] c = "=" /\ "HILITE" \in d.ext_flags -> "char_emphasis"
      [] c = Tick -> "char_codespan"
      [] c = "\n" -> "char_linebreak"
      [] c = "[" -> "char_link"
      [] c = "!" -> "char_image"
      [] c = "<" -> "char_langle_tag"
      [] c = "\\" -> "char_escape"
      [] c = "&" -> "char_entity"
      [] c = ":" /\ "AUTOLINK" \in d.ext_flags -> "char_autolink_url"
      [] c = "@" /\ "AUTOLINK" \in d.ext_flags -> "char_autolink_email"
      [] c = "w" /\ "AUTOLINK" \in d.ext_flags -> "char_autolink_www"
      [] c = "^" /\ "SUPER" \in d.ext_flags -> "char_superscript"
      [] c = "$" /\ "MATH" \in d.ext_flags -> "char_math"
      [] OTHER -> "none"

\* is_escaped: whether an odd number of backslashes precedes data[loc]
RECURSIVE BackslashesBefore(_, _)
BackslashesBefore(d, i) ==
    IF i >= 1 /\ B(d, i - 1) = "\\" THEN 1 + BackslashesBefore(d, i - 1)
    ELSE 0

is_escaped(d, loc) == BackslashesBefore(d, loc) % 2

\* the first index k in i..(Len(d) - 1) whose byte is in set; Len(d) when
\* there is none
RECURSIVE ScanTo(_, _, _)
ScanTo(d, i, set) ==
    IF i < Len(d) /\ B(d, i) \notin set THEN ScanTo(d, i + 1, set) ELSE i

\* the first index k in i..(Len(d) - 1) whose byte is not in set
RECURSIVE ScanPast(_, _, _)
ScanPast(d, i, set) ==
    IF i < Len(d) /\ B(d, i) \in set THEN ScanPast(d, i + 1, set) ELSE i

\* "while (end && data[end - 1] == c) end--"
RECURSIVE trim_byte(_, _, _)
trim_byte(d, end, c) ==
    IF end > 0 /\ B(d, end - 1) = c THEN trim_byte(d, end - 1, c) ELSE end

\* "if (!tmp_i && data[i] == c) tmp_i = i" over the indexes from..(to - 1)
RECURSIVE Track(_, _, _, _, _)
Track(d, from, to, c, tmp) ==
    IF from >= to THEN tmp
    ELSE Track(d, from + 1, to, c,
               IF tmp = 0 /\ B(d, from) = c THEN from ELSE tmp)

\* the loop looking for span_nb backticks in a row: <<i, bt, tmp_i>> after
RECURSIVE FindClosingTicks(_, _, _, _, _, _)
FindClosingTicks(d, i, bt, span_nb, c, tmp) ==
    IF i < Len(d) /\ bt < span_nb
    THEN FindClosingTicks(d, i + 1, IF B(d, i) = Tick THEN bt + 1 ELSE 0,
                          span_nb, c,
                          IF tmp = 0 /\ B(d, i) = c THEN i ELSE tmp)
    ELSE <<i, bt, tmp>>

\* find_emph_char resumed with its index at i
RECURSIVE find_emph_char_from(_, _, _)
find_emph_char_from(d, c, i0) ==
    LET size == Len(d)
        i == ScanTo(d, i0, {c, "[", Tick})
    IN IF i0 >= size \/ i = size THEN 0
       ELSE IF is_escaped(d, i) = 1 THEN find_emph_char_from(d, c, i + 1)
       ELSE IF B(d, i) = c THEN i
       ELSE IF B(d, i) = Tick
       THEN LET i1 == ScanPast(d, i, {Tick})
                span_nb == i1 - i
                r == FindClosingTicks(d, i1, 0, span_nb, c, 0)
            IN IF i1 >= size THEN 0
               ELSE IF r[2] < span_nb /\ r[1] >= size THEN r[3]
               ELSE find_emph_char_from(d, c, r[1])
       ELSE \* a link is skipped
            LET i1 == ScanTo(d, i + 1, {"]"})
                t1 == Track(d, i + 1, i1, c, 0)
                i2 == ScanPast(d, i1 + 1, {" ", "\n"})
            IN IF i2 >= size THEN t1
               ELSE IF B(d, i2) \notin {"[", "("}
               THEN IF t1 # 0 THEN t1 ELSE find_emph_char_from(d, c, i2)
               ELSE LET cc == IF B(d, i2) = "[" THEN "]" ELSE ")"
                        i3 == ScanTo(d, i2 + 1, {cc})
                        t2 == Track(d, i2 + 1, i3, c, t1)
                    IN IF i3 >= size THEN t2
                       ELSE find_emph_char_from(d, c, i3 + 1)

\* find_emph_char(data, size, c): the index of the next c outside code
\* spans and links, 0 when there is none
find_emph_char(d, c) == find_emph_char_from(d, c, 0)

\* a countspaces that counts one space when maxlen is 0
countspaces_one(d, offset, size, maxlen) ==
    LET RECURSIVE go(_)
        go(i) == IF i < size /\ ~(maxlen > 0 /\ i - offset = maxlen)
                      /\ ~(maxlen = 0 /\ i - offset = 1)
                      /\ B(d, i) = " "
                 THEN go(i + 1) ELSE i
    IN go(offset)

\* countspaces(data, offset, size, maxlen)
countspaces(d, offset, size, maxlen) ==
    LET RECURSIVE go(_)
        go(i) == IF i < size /\ ~(maxlen > 0 /\ i - offset = maxlen)
                      /\ B(d, i) = " "
                 THEN go(i + 1) ELSE i
    IN go(offset)

\* the bytes of the inputs that isalnum accepts
isalnum(c) == c \in {"a", "b", "w", "1"}

\* what a handler returns: the world it leaves and the bytes it consumed
Took(w, n) == [w |-> w, n |-> n]

\* a handler's result r passed on by its caller: nothing when r is
\* nothing, k more bytes otherwise
Plus(r, k) == IF r.n = 0 THEN Took(r.w, 0) ELSE Took(r.w, r.n + k)

\* a NORMAL_TEXT node holding the bytes text
text_node(w, text) ==
    LET fill(w1, n) ==
            popnode(SetStr(pushbuffer(w1, n, "text", Len(text)), n, text), n)
        pushed(w1) == fill(w1, Cur(w1))
    IN pushed(pushnode(w, "NORMAL_TEXT"))

RECURSIVE parse_inline(_, _)

\* a node of the given type around the inline parse of the bytes body
span_node(w, type, body) ==
    LET inside(w1) == popnode(parse_inline(w1, body), Cur(w1))
    IN inside(pushnode(w, type))

\* parse_emph1(doc, data, size, c) with its index at i
RECURSIVE parse_emph1_from(_, _, _, _)
parse_emph1_from(w, d, c, i0) ==
    LET size == Len(d)
        len == find_emph_char(From(d, i0), c)
        i == i0 + len
    IN IF i0 >= size \/ len = 0 \/ i >= size THEN Took(w, 0)
       ELSE IF B(d, i) = c /\ ~xisspace(B(d, i - 1))
       THEN IF "NOINTEM" \in w.doc.ext_flags /\ i + 1 < size
                /\ isalnum(B(d, i + 1))
            THEN parse_emph1_from(w, d, c, i)
            ELSE Took(span_node(w, "EMPHASIS", Take(d, i)), i + 1)
       ELSE parse_emph1_from(w, d, c, i)

parse_emph1(w, d, c) ==
    parse_emph1_from(w, d, c,
        IF Len(d) > 1 /\ B(d, 0) = c /\ B(d, 1) = c THEN 1 ELSE 0)

\* parse_emph2(doc, data, size, c) with its index at i
RECURSIVE parse_emph2_from(_, _, _, _)
parse_emph2_from(w, d, c, i0) ==
    LET size == Len(d)
        len == find_emph_char(From(d, i0), c)
        i == i0 + len
        t == CASE c = "~" -> "STRIKETHROUGH"
               [] c = "=" -> "HIGHLIGHT"
               [] OTHER -> "DOUBLE_EMPHASIS"
    IN IF i0 >= size \/ len = 0 THEN Took(w, 0)
       ELSE IF i + 1 < size /\ B(d, i) = c /\ B(d, i + 1) = c /\ i # 0
               /\ ~xisspace(B(d, i - 1))
       THEN Took(span_node(w, t, Take(d, i)), i + 2)
       ELSE parse_emph2_from(w, d, c, i + 1)

parse_emph2(w, d, c) == parse_emph2_from(w, d, c, 0)

\* parse_emph3(doc, data, size, c), data being d + b, with its index at i
RECURSIVE parse_emph3_from(_, _, _, _, _)
parse_emph3_from(w, d, b, c, i0) ==
    LET span == From(d, b)
        size == Len(span)
        len == find_emph_char(From(span, i0), c)
        i == i0 + len
    IN IF i0 >= size \/ len = 0 THEN Took(w, 0)
       ELSE IF B(span, i) # c \/ xisspace(B(span, i - 1))
       THEN parse_emph3_from(w, d, b, c, i)
       ELSE IF i + 2 < size /\ B(span, i + 1) = c /\ B(span, i + 2) = c
       THEN Took(span_node(w, "TRIPLE_EMPHASIS", Take(span, i)), i + 3)
       ELSE IF i + 1 < size /\ B(span, i + 1) = c
       THEN Plus(parse_emph1(w, From(d, b - 2), c), -2)
       ELSE Plus(parse_emph2(w, From(d, b - 1), c), -1)

parse_emph3(w, d, b, c) == parse_emph3_from(w, d, b, c, 0)

\* char_emphasis on the bytes d, with the bytes pre before them
char_emphasis(w, d, pre) ==
    LET c == B(d, 0)
        size == Len(d)
    IN IF "NOINTEM" \in w.doc.ext_flags /\ Len(pre) > 0
          /\ ~xisspace(Last(pre)) /\ Last(pre) \notin {">", "("}
       THEN Took(w, 0)
       ELSE IF size > 2 /\ B(d, 1) # c
       THEN IF c \in {"~", "="} \/ xisspace(B(d, 1)) THEN Took(w, 0)
            ELSE Plus(parse_emph1(w, From(d, 1), c), 1)
       ELSE IF size > 3 /\ B(d, 1) = c /\ B(d, 2) # c
       THEN IF xisspace(B(d, 2)) THEN Took(w, 0)
            ELSE Plus(parse_emph2(w, From(d, 2), c), 2)
       ELSE IF size > 4 /\ B(d, 1) = c /\ B(d, 2) = c /\ B(d, 3) # c
       THEN IF c \in {"~", "="} \/ xisspace(B(d, 3)) THEN Took(w, 0)
            ELSE Plus(parse_emph3(w, d, 3, c), 3)
       ELSE Took(w, 0)

\* char_codespan
char_codespan(w, d) ==
    LET size == Len(d)
        nb == ScanPast(d, 0, {Tick})
        r == FindClosingTicks(d, nb, 0, nb, Tick, 0)
        end == r[1]
        f_begin == countspaces(d, nb, end, 0)
        RECURSIVE trim(_)
        trim(e) == IF e > nb /\ B(d, e - 1) = " " THEN trim(e - 1) ELSE e
        f_end == trim(end - nb)
    IN IF r[2] < nb /\ end >= size THEN Took(w, 0)
       ELSE LET fill(w1, n) ==
                    popnode(IF f_begin < f_end
                            THEN SetStr(pushbuffer(w1, n, "text",
                                                   f_end - f_begin),
                                        n, SubSeq(d, f_begin + 1, f_end))
                            ELSE w1, n)
                pushed(w1) == fill(w1, Cur(w1))
            IN Took(pushed(pushnode(w, "CODESPAN")), end)

\* parse_math: the index just past the closing delimiter, 0 when there is
\* none
RECURSIVE math_end(_, _, _)
math_end(d, delim, i0) ==
    LET size == Len(d)
        delimsz == Len(delim)
        i == ScanTo(d, i0, {delim[1]})
    IN IF i >= size THEN 0
       ELSE IF is_escaped(d, i) = 0 /\ ~(i + delimsz > size)
               /\ SubSeq(d, i + 1, i + delimsz) = delim
       THEN i + delimsz
       ELSE math_end(d, delim, i + 1)

parse_math(w, d, delim, blockmode) ==
    LET delimsz == Len(delim)
        i == math_end(d, delim, delimsz)
    IN IF i = 0 THEN Took(w, 0)
       ELSE IF "MATH" \notin w.doc.ext_flags
       THEN Took(text_node(w, Take(d, i)), i)
       ELSE LET mode(w2, n) ==
                    popnode(IF w2.err # "none" THEN w2
                            ELSE [w2 EXCEPT !.tree[n].num = blockmode], n)
                fill(w1, n) ==
                    mode(SetStr(pushbuffer(w1, n, "text", i - 2 * delimsz), n,
                                SubSeq(d, delimsz + 1, i - delimsz)), n)
                pushed(w1) == fill(w1, Cur(w1))
            IN Took(pushed(pushnode(w, "MATH_BLOCK")), i)

escape_chars ==
    {"\\", Tick, "*", "_", "{", "}", "[", "]", "(", ")", "#", "+", "-", ".",
     "!", ":", "|", "&", "<", ">", "^", "~", "=", "\"", "$"}

\* the node of a line break
linebreak_node(w) ==
    LET pushed(w1) == popnode(w1, Cur(w1))
    IN pushed(pushnode(w, "LINEBREAK"))

\* char_escape
char_escape(w, d) ==
    LET size == Len(d)
        rest(m) ==
            IF m.n # 0 THEN m
            ELSE IF "COMMONMARK" \in w.doc.ext_flags /\ B(d, 1) = "\n"
            THEN Took(linebreak_node(w), ScanPast(d, 2, {" "}))
            ELSE IF B(d, 1) \notin escape_chars THEN Took(w, 0)
            ELSE Took(text_node(w, <<B(d, 1)>>), 2)
    IN IF size = 1 THEN Took(text_node(w, Take(d, 1)), 2)
       ELSE rest(IF size > 2 /\ B(d, 1) = "\\"
                    /\ "MATH" \in w.doc.ext_flags /\ B(d, 2) \in {"(", "["}
                 THEN parse_math(w, d,
                          IF B(d, 2) = "[" THEN <<"\\", "\\", "]">>
                          ELSE <<"\\", "\\", ")">>,
                          IF B(d, 2) = "[" THEN 1 ELSE 0)
                 ELSE Took(w, 0))

\* the loop of char_link looking for the end of an inline link: the index
\* of the closing parenthesis or of the byte that starts a title or the
\* dimensions, at least Len(d) when there is none
RECURSIVE link_end(_, _, _)
link_end(d, i, nb_p) ==
    IF i >= Len(d) THEN i
    ELSE IF B(d, i) = "\\" THEN link_end(d, i + 2, nb_p)
    ELSE IF B(d, i) = "(" /\ i # 0 THEN link_end(d, i + 1, nb_p + 1)
    ELSE IF B(d, i) = ")"
         THEN IF nb_p = 0 THEN i ELSE link_end(d, i + 1, nb_p - 1)
    ELSE IF i >= 1 /\ xisspace(B(d, i - 1)) /\ B(d, i) \in {"'", "=", "\""}
         THEN i
    ELSE link_end(d, i + 1, nb_p)

\* the inline parse of the bracketed text of a link, in_link_body being
\* set while it runs
char_link_body(w, body) ==
    LET parsed(wb) == IF wb.err # "none" THEN wb
                      ELSE [wb EXCEPT !.doc.in_link_body = 0]
    IN parsed(parse_inline([w EXCEPT !.doc.in_link_body = 1], body))

\* unscape_text: the bytes src without the backslashes that escape a byte
RECURSIVE unscape_text(_)
unscape_text(src) ==
    IF src = <<>> THEN <<>>
    ELSE IF Head(src) # "\\" THEN <<Head(src)>> \o unscape_text(Tail(src))
    ELSE IF Len(src) = 1 THEN <<>>
    ELSE <<src[2]>> \o unscape_text(Tail(Tail(src)))

\* replace_spacing: every newline becomes a space, unless a space is
\* before it
RECURSIVE replace_spacing(_, _)
replace_spacing(d, i) ==
    IF i >= Len(d) THEN <<>>
    ELSE IF B(d, i) # "\n" THEN <<B(d, i)>> \o replace_spacing(d, i + 1)
    ELSE IF i > 0 /\ B(d, i - 1) = " " THEN replace_spacing(d, i + 1)
    ELSE <<" ">> \o replace_spacing(d, i + 1)

\* find_link_ref: the index in q of the first reference with the name, 0
\* when there is none; a reference without a name has the empty name
RECURSIVE find_link_ref_from(_, _, _)
find_link_ref_from(q, name, k) ==
    IF k > Len(q) THEN 0
    ELSE IF q[k].name = name THEN k
    ELSE find_link_ref_from(q, name, k + 1)

\* find_link_ref that goes on to the last reference with the name
RECURSIVE find_link_ref_last(_, _)
find_link_ref_last(q, name) ==
    IF q = <<>> THEN 0
    ELSE IF Last(q).name = name THEN Len(q)
    ELSE find_link_ref_last(Front(q), name)

find_link_ref(q, name) == find_link_ref_from(q, name, 1)

\* the target of a link in the reference or shortcut form with the key
\* idp, i being what char_link returns: link and title are those of the
\* reference found, ok is FALSE when there is none
link_ref_target(w, key, closed, i) ==
    LET lr == find_link_ref(w.doc.refq, key)
    IN [ok |-> closed /\ lr # 0, own |-> FALSE, has_link |-> lr # 0,
        link |-> IF lr # 0 THEN w.doc.refq[lr].link ELSE <<>>,
        title |-> IF lr # 0 THEN w.doc.refq[lr].title ELSE <<>>,
        i |-> i, idp |-> hbuf_new(w).b]

\* the rest of char_link once the link target t is known: the node, the
\* inline parse of the bracketed text, the buffers; t.i is what is returned
char_link_node(w, d, txt_e, is_img, t) ==
    LET put(wx, n, field, bytes) ==
            IF wx.err # "none" THEN wx
            ELSE pushbuffer([wx EXCEPT !.tree[n][field] = bytes], n, field,
                            Len(bytes))
        cleanup(w6, linkp, content, u_link) ==
            Took(hbuf_free(hbuf_free(hbuf_free(hbuf_free(w6, linkp), t.idp),
                                     content),
                           u_link),
                 t.i)
        bufs(w3, n, linkp, content, u_link) ==
            cleanup(popnode(IF content # NULL
                            THEN pushbuffer(w3, n, "alt", 1) ELSE w3, n),
                    linkp, content, u_link)
        titled(w3, n, linkp, content, u_link) ==
            bufs(IF t.title # <<>> THEN put(w3, n, "title", t.title) ELSE w3,
                 n, linkp, content, u_link)
        unescaped(w3, n, linkp, content) ==
            titled(IF t.has_link
                   THEN put(w3, n, "link", unscape_text(t.link)) ELSE w3,
                   n, linkp, content, IF t.has_link THEN w3.b ELSE NULL)
        text(w2, n, linkp, content) ==
            unescaped(IF t.has_link THEN hbuf_new(w2) ELSE w2, \* u_link
                      n, linkp, content)
        alt(w2, n, linkp) == text(w2, n, linkp, w2.b)
        node(w1, n, linkp) ==
            IF w1.err # "none" \/ txt_e <= 1 THEN text(w1, n, linkp, NULL)
            ELSE IF is_img THEN alt(hbuf_new(w1), n, linkp)    \* content
            ELSE text(char_link_body(w1, SubSeq(d, 2, txt_e)), n, linkp,
                      NULL)
        pushed(w1, linkp) == node(w1, Cur(w1), linkp)
        link(w0) == pushed(pushnode(w0, IF is_img THEN "IMAGE" ELSE "LINK"),
                           IF t.own THEN w0.b ELSE NULL)
    IN link(IF t.own THEN hbuf_new(w) ELSE w)               \* link = linkp

\* char_link on the bytes d, which start with the bracket, with the bytes
\* pre before them.  The inputs hold no quote and no equals sign after a
\* parenthesis, so an inline link has neither title nor dimensions.
char_link(w, d, pre) ==
    LET size == Len(d)
        is_img == Len(pre) > 0 /\ Last(pre) = "!"
                     /\ is_escaped(pre, Len(pre) - 1) = 0
        txt_e == 1 + find_emph_char(From(d, 1), "]")
        i1 == ScanPast(d, txt_e + 1, {" ", "\n"})
        \* idp = hbuf_new(64) of the reference forms is freed on the way out
        link(t) ==
            IF ~t.ok
            THEN Took(IF t.idp # NULL THEN hbuf_free(hbuf_new(w), t.idp)
                      ELSE w, 0)
            ELSE char_link_node(IF t.idp # NULL THEN hbuf_new(w) ELSE w,
                                d, txt_e, is_img, t)
    IN IF ~(txt_e < size /\ B(d, txt_e) = "]") THEN Took(w, 0)
       ELSE IF "FOOTNOTES" \in w.doc.ext_flags /\ B(d, 1) = "^"
       THEN IF txt_e < 3 THEN Took(w, 0)
            ELSE Took(char_link_footnote(w, SubSeq(d, 3, txt_e)), txt_e + 1)
       ELSE IF "METADATA" \in w.doc.ext_flags /\ B(d, 1) = "%"
       THEN IF txt_e < 3 THEN Took(w, 0) ELSE Took(w, txt_e + 1)
       ELSE link(
           IF i1 < size /\ B(d, i1) = "("
           THEN LET link_b == ScanPast(d, i1 + 1, {" ", "\n"})
                    i2 == link_end(d, link_b, 0)
                    RECURSIVE trim(_)
                    trim(e) == IF e > link_b /\ xisspace(B(d, e - 1))
                               THEN trim(e - 1) ELSE e
                    link_e == trim(i2)
                    angle == link_e > 0 /\ B(d, link_b) = "<"
                                /\ B(d, link_e - 1) = ">"
                    has_link == /\ i2 < size
                                /\ IF angle THEN link_e - 1 > link_b + 1
                                   ELSE link_e > link_b
                IN [ok |-> i2 < size, own |-> has_link,
                    has_link |-> has_link,
                    link |-> IF ~has_link THEN <<>>
                             ELSE IF angle
                             THEN SubSeq(d, link_b + 2, link_e - 1)
                             ELSE SubSeq(d, link_b + 1, link_e),
                    title |-> <<>>, i |-> i2 + 1, idp |-> NULL]
           ELSE IF i1 < size /\ B(d, i1) = "["
           THEN LET link_b == i1 + 1
                    link_e == ScanTo(d, link_b, {"]"})
                IN link_ref_target(
                       w, IF link_b = link_e
                          THEN replace_spacing(SubSeq(d, 2, txt_e), 0)
                          ELSE SubSeq(d, link_b + 1, link_e),
                       link_e < size, link_e + 1)
           ELSE link_ref_target(w, replace_spacing(SubSeq(d, 2, txt_e), 0),
                                TRUE, txt_e + 1))

\* char_superscript
char_superscript(w, d) ==
    LET size == Len(d)
        paren == size >= 2 /\ B(d, 1) = "("
        sup_start == IF paren THEN 2 ELSE 1
        sup_len == IF paren THEN find_emph_char(From(d, 2), ")") + 2
                   ELSE ScanTo(d, 1, {" ", "\n"})
    IN IF size < 2 THEN Took(w, 0)
       ELSE IF paren /\ sup_len = size THEN Took(w, 0)
       ELSE IF sup_len - sup_start = 0
       THEN Took(w, IF sup_start = 2 THEN 3 ELSE 0)
       ELSE Took(span_node(w, "SUPERSCRIPT",
                           SubSeq(d, sup_start + 1, sup_len)),
                 IF sup_start = 2 THEN sup_len + 1 ELSE sup_len)

\* char_linebreak(doc, data, offset, size): a newline after two spaces
\* makes a LINEBREAK; the spaces that end the text before it are cut and
\* the spaces after it are swallowed
char_linebreak(w, d, pre) ==
    LET cs == w.tree[w.doc.current].children
        cut(n) == [w EXCEPT !.tree[n].str =
                      SubSeq(@, 1, trim_byte(@, Len(@), " "))]
        made(w1) == popnode(w1, Cur(w1))
    IN IF Len(pre) < 2 \/ pre[Len(pre)] # " " \/ pre[Len(pre) - 1] # " "
       THEN Took(w, 0)
       ELSE IF cs = <<>> \/ w.tree[Last(cs)].type # "NORMAL_TEXT"
       THEN Took([w EXCEPT !.err = "assert"], 0)
       ELSE Took(made(pushnode(cut(Last(cs)), "LINEBREAK")),
                 ScanPast(d, 1, {" "}))

\* char_math
char_math(w, d) ==
    IF Len(d) > 1 /\ B(d, 1) = "$"
    THEN parse_math(w, d, <<"$", "$">>, 1)
    ELSE parse_math(w, d, <<"$">>, 0)

\* a node of the given type holding the bytes text in its buffer field
leaf_node(w, type, field, text) ==
    LET fill(w1, n) ==
            popnode(SetStr(pushbuffer(w1, n, field, Len(text)), n, text), n)
        pushed(w1) == fill(w1, Cur(w1))
    IN pushed(pushnode(w, type))

\* char_entity: "&", an optional "#", letters and digits, ";"
char_entity(w, d) ==
    LET size == Len(d)
        e1 == IF 1 < size /\ B(d, 1) = "#" THEN 2 ELSE 1
        e2 == ScanPast(d, e1, {"a", "b", "w", "1"})
    IN IF e2 < size /\ B(d, e2) = ";"
       THEN Took(leaf_node(w, "ENTITY", "text", Take(d, e2 + 1)), e2 + 1)
       ELSE Took(w, 0)

\* is_mail_autolink: the length of an address part up to and including ">"
RECURSIVE is_mail_autolink_from(_, _, _)
is_mail_autolink_from(d, i, nb) ==
    IF i >= Len(d) THEN 0
    ELSE IF isalnum(B(d, i)) \/ B(d, i) \in {"-", ".", "_"}
    THEN is_mail_autolink_from(d, i + 1, nb)
    ELSE IF B(d, i) = "@" THEN is_mail_autolink_from(d, i + 1, nb + 1)
    ELSE IF B(d, i) = ">" /\ nb = 1 THEN i + 1
    ELSE 0

is_mail_autolink(d) == is_mail_autolink_from(d, 0, 0)

\* the loop of tag_length over the address of an autolink: the index of the
\* byte that ends it ("\\" skips a byte)
RECURSIVE tag_link_end(_, _)
tag_link_end(d, i) ==
    IF i >= Len(d) THEN i
    ELSE IF B(d, i) = "\\" THEN tag_link_end(d, i + 2)
    ELSE IF B(d, i) \in {">", "'", "\"", " ", "\n"} THEN i
    ELSE tag_link_end(d, i + 1)

\* the end of an HTML comment, laxist form: the loop from i on
RECURSIVE tag_comment_end(_, _)
tag_comment_end(d, i) ==
    IF i < Len(d)
       /\ ~(B(d, i - 2) = "-" /\ B(d, i - 1) = "-" /\ B(d, i) = ">")
    THEN tag_comment_end(d, i + 1)
    ELSE i + 1

\* tag_length(data, size, &ltype): the length of the tag (0: not valid),
\* the kind of autolink, and whether data[size] was read
tag_length(d) ==
    LET size == Len(d)
        none(n) == [n |-> n, ltype |-> "NONE", over |-> FALSE]
        ce == IF size > 5 /\ B(d, 1) = "!" /\ B(d, 2) = "-" /\ B(d, 3) = "-"
              THEN tag_comment_end(d, 5) ELSE size + 1
        i0 == IF B(d, 1) = "/" THEN 2 ELSE 1
        i1 == ScanPast(d, i0, {"a", "b", "w", "1", ".", "+", "-"})
        j == is_mail_autolink(From(d, i1))
        url == i1 > 2 /\ B(d, i1) = ":"
        i2 == IF url THEN i1 + 1 ELSE i1
        i3 == tag_link_end(d, i2)
        close(i) == IF ScanTo(d, i, {">"}) >= size THEN none(0)
                    ELSE none(ScanTo(d, i, {">"}) + 1)
    IN IF size < 3 \/ B(d, 0) # "<" THEN none(0)
       ELSE IF ce <= size THEN none(ce)
       ELSE IF ~isalnum(B(d, i0)) THEN none(0)
       ELSE IF i1 >= size THEN [n |-> 0, ltype |-> "NONE", over |-> TRUE]
       ELSE IF i1 > 1 /\ B(d, i1) = "@" /\ j # 0
       THEN [n |-> i1 + j, ltype |-> "EMAIL", over |-> FALSE]
       ELSE IF ~url THEN close(i1)
       ELSE IF i2 >= size THEN none(0)
       ELSE IF i3 >= size THEN none(0)
       ELSE IF i3 > i2 /\ B(d, i3) = ">"
       THEN [n |-> i3 + 1, ltype |-> "NORMAL", over |-> FALSE]
       ELSE close(i3)

\* char_langle_tag: an autolink in angle brackets or a raw HTML tag
char_langle_tag(w, d) ==
    LET t == tag_length(d)
        fill(w2, n, u) ==
            popnode(SetStr(pushbuffer(pushbuffer(w2, n, "link", Len(u)),
                                      n, "text", Len(u)), n, u), n)
        auto(w1, u_link) ==
            hbuf_free(fill(pushnode(w1, "LINK_AUTO"),
                           Cur(pushnode(w1, "LINK_AUTO")),
                           unscape_text(SubSeq(d, 2, t.n - 1))), u_link)
        linked(w1) == auto(w1, w1.b)
    IN IF t.over THEN Took([w EXCEPT !.err = "overread"], 0)
       ELSE IF t.n <= 2 THEN Took(w, 0)
       ELSE IF t.ltype # "NONE" THEN Took(linked(hbuf_new(w)), t.n)
       ELSE Took(leaf_node(w, "RAW_HTML", "text", Take(d, t.n)), t.n)

\* halink_url, halink_email, halink_www on bytes that hold no ".": there is
\* no match
halink(kind, d, pre) == [len |-> 0, rewind |-> 0]

\* char_autolink_url, char_autolink_email and char_autolink_www at a byte
\* where the recogniser finds nothing
char_autolink(w, d, pre, kind) ==
    LET found(w1, link) == Took(hbuf_free(w1, link), halink(kind, d, pre).len)
        looked(w1) == found(w1, w1.b)
    IN IF w.doc.in_link_body # 0 THEN Took(w, 0)
       ELSE looked(hbuf_new(w))

\* char_image, which is char_link one byte on (k = 1), or char_link (k = 0)
char_image_link(w, d, pre, k) ==
    IF k = 1 /\ (Len(d) < 2 \/ B(d, 1) # "[") THEN Took(w, 0)
    ELSE Plus(char_link(w, From(d, k),
                        IF k = 1 THEN Append(pre, "!") ELSE pre), k)

\* markdown_char_ptrs[...](doc, data + i, i - consumed, size - i)
char_trigger(w, d, i, consumed) ==
    LET s == From(d, i)
        pre == SubSeq(d, consumed + 1, i)
        h == active_char(w.doc, B(d, i))
    IN CASE h = "char_emphasis" -> char_emphasis(w, s, pre)
         [] h = "char_codespan" -> char_codespan(w, s)
         [] h = "char_linebreak" -> char_linebreak(w, s, pre)
         [] h \in {"char_link", "char_image"} ->
                char_image_link(w, s, pre, IF h = "char_image" THEN 1 ELSE 0)
         [] h = "char_langle_tag" -> char_langle_tag(w, s)
         [] h = "char_escape" -> char_escape(w, s)
         [] h = "char_entity" -> char_entity(w, s)
         [] h \in {"char_autolink_url", "char_autolink_email",
                   "char_autolink_www"} -> char_autolink(w, s, pre, h)
         [] h = "char_superscript" -> char_superscript(w, s)
         [] h = "char_math" -> char_math(w, s)

\* the first half of an iteration of parse_inline: the inactive bytes from
\* end on join the bytes from i in a NORMAL_TEXT node; the new end
inline_text(w, d, i, end) ==
    LET RECURSIVE scan(_)
        scan(e) == IF e < Len(d) /\ active_char(w.doc, B(d, e)) = "none"
                   THEN scan(e + 1) ELSE e
        e1 == scan(end)
    IN Took(IF e1 - i > 0 THEN text_node(w, SubSeq(d, i + 1, e1)) ELSE w, e1)

\* the second half: the handler of the active byte at i is called; the new
\* i, end and consumed.  The inputs are parsed without IMG_EXT, so the test
\* for image attributes fails.
RECURSIVE inline_char(_, _, _, _)
inline_char(w, d, i, consumed) ==
    LET next(r) ==
            IF r.n = 0
            THEN [w |-> r.w, i |-> i, end |-> i + 1, consumed |-> consumed,
                  ret |-> 0]
            ELSE [w |-> r.w, i |-> i + r.n, end |-> i + r.n,
                  consumed |-> i + r.n, ret |-> r.n]
    IN next(char_trigger(w, d, i, consumed))

RECURSIVE parse_inline_from(_, _, _, _, _)
parse_inline_from(w, d, i, end, consumed) ==
    LET again(c) == parse_inline_from(c.w, d, c.i, c.end, c.consumed)
        active(t) == IF t.n >= Len(d) THEN t.w
                     ELSE again(inline_char(t.w, d, t.n, consumed))
    IN IF w.err # "none" \/ i >= Len(d) THEN w
       ELSE active(inline_text(w, d, i, end))

parse_inline(w, d) == parse_inline_from(w, d, 0, 0, 0)

(***************************************************************************)
(* The inline pass as a machine: parse_inline running over the text of a   *)
(* paragraph, one half of an iteration of its loop at a time.              *)
(***************************************************************************)
\* the bytes the spans are made of
Bytes == {"a", " ", "*", Tick, "[", "]", "(", ")", "^", "\\"}

\* the spans: every sequence of at most MaxLen bytes
Spans == UNION { [1..k -> Bytes] : k \in 0..MaxLen }

\* the feature sets the inline pass runs with
InlineFeatures == { {"SUPER"}, {} }

\* lowdown_doc_parse up to the call of parse_inline on the first paragraph
InlineStart(feat) ==
    LET body(w1) == parse_paragraph(popnode(w1, Cur(w1)), 1)
    IN body(doc_parse_begin(
               [doc |-> lowdown_doc_new([feat |-> feat, maxdepth |-> 0]),
                opts |-> [meta |-> <<>>, metaovr |-> <<>>],
                tree |-> <<>>, heap |-> {}, err |-> "none", b |-> NULL],
               <<>>))

\* the locals i, end and consumed of parse_inline
InlineFrame(n, i, end, consumed) ==
    Frame("parse_inline", n, "inline", <<>>, <<i, end, consumed>>)

InitInline ==
    /\ \E feat \in InlineFeatures :
          \E w \in {InlineStart(feat)} :
             /\ doc = w.doc
             /\ opts = w.opts
             /\ tree = w.tree
             /\ heap = w.heap
             /\ stack = << InlineFrame(Cur(w), 0, 0, 0) >>
    /\ data \in Spans
    /\ pc = "inline_text"
    /\ ret = [root |-> NULL, maxn |-> 0]
    /\ ncalls = 1
    /\ input = [of |-> {}, more |-> 0]
    /\ out = <<>>

\* the head of the loop and the copying of the inactive bytes
InlineText ==
    /\ pc = "inline_text"
    /\ \E i \in {Top.aux[1]} :
       \E t \in {inline_text(World, data, i, Top.aux[2])} :
          IF i >= Len(data)
          THEN /\ Commit(World, stack, "inline_done")
               /\ out' = out
          ELSE /\ Commit(t.w, << InlineFrame(Top.n, t.n, t.n, Top.aux[3]) >>,
                         IF t.n >= Len(data) THEN "inline_done"
                         ELSE "inline_char")
               /\ out' = IF t.n > i
                         THEN Append(out, [kind |-> "text", at |-> i,
                                           ret |-> t.n - i, added |-> 1])
                         ELSE out
    /\ UNCHANGED <<ret, ncalls, input, data>>

\* the call of the handler of the active byte at i
InlineChar ==
    /\ pc = "inline_char"
    /\ \E i \in {Top.aux[1]} :
       \E c \in {inline_char(World, data, i, Top.aux[3])} :
          /\ Commit(c.w, << InlineFrame(Top.n, c.i, c.end, c.consumed) >>,
                    "inline_text")
          /\ out' = Append(out, [kind |-> "call", at |-> i, ret |-> c.ret,
                                 added |-> Len(c.w.tree) - Len(tree)])
    /\ UNCHANGED <<ret, ncalls, input, data>>

NextInline ==
    \/ InlineText
    \/ InlineChar

SpecInline == InitInline /\ [][NextInline]_vars

(***************************************************************************)
(* SpecGate runs the inline pass under each feature set over spans that    *)
(* hold the bytes and the constructs the features switch on.               *)
(***************************************************************************)
\* bytes in a span made of every byte
MaxGate == 2

GateBytes ==
    {"a", "w", " ", "\n", "*", "_", "~", "=", Tick, "[", "]", "!", "<", ">",
     "\\", "&", ";", ":", "@", "^", "$", "(", ")", "-", "1"}

\* a construct per feature and per handler, open and closed
GateConstructs ==
    { <<"~", "~", "a", "~", "~">>, <<"=", "=", "a", "=", "=">>,
      <<"~", "a", "~">>, <<"=", "a", "=">>, <<"*", "~", "~", "a", "~", "~", "*">>,
      <<"^", "(", "a", ")">>, <<"$", "a", "$">>, <<"$", "$", "a", "$", "$">>,
      <<"\\", "\\", "(", "a", "\\", "\\", ")">>,
      <<"\\", "\\", "[", "a", "\\", "\\", "]">>,
      <<"*", "$", "a", "$", "*">>, <<"*", "^", "a", "*">>,
      <<"a", ":", "a">>, <<"a", "@", "a">>, <<"w", "w", "w">>,
      <<"<", "a", ">">>, <<"<", "a", "@", "a", ">">>,
      <<"<", "a", "a", ":", "a", ">">>, <<"&", "a", ";">>, <<"&", "#", "1", ";">>,
      <<"!", "[", "a", "]", "(", "a", ")">>, <<"_", "a", "_">>,
      <<"a", " ", " ", "\n", "a">> }

GateSpans == GateConstructs \cup UNION { [1..k -> GateBytes] : k \in 0..MaxGate }

GateFeatures ==
    { {}, {"STRIKE"}, {"HILITE"}, {"SUPER"}, {"MATH"}, {"AUTOLINK"},
      {"STRIKE", "HILITE", "SUPER", "MATH", "AUTOLINK"} }

InitGate ==
    /\ \E feat \in GateFeatures :
          \E w \in {InlineStart(feat)} :
             /\ doc = w.doc
             /\ opts = w.opts
             /\ tree = w.tree
             /\ heap = w.heap
             /\ stack = << InlineFrame(Cur(w), 0, 0, 0) >>
    /\ data \in GateSpans
    /\ pc = "inline_text"
    /\ ret = [root |-> NULL, maxn |-> 0]
    /\ ncalls = 1
    /\ input = [of |-> {}, more |-> 0]
    /\ out = <<>>

SpecGate == InitGate /\ [][NextInline]_vars

(***************************************************************************)
(* SpecSpans runs the inline pass over every span of backticks, spaces and *)
(* letters and over every span of asterisks, spaces and letters.           *)
(***************************************************************************)
\* bytes in a span of backticks, spaces and letters
MaxCode == 7
\* bytes in a span of asterisks, spaces and letters
MaxEmph == 9

CodeSpans == UNION { [1..k -> {Tick, " ", "a"}] : k \in 0..MaxCode }

EmphSpans == UNION { [1..k -> {"*", " ", "a"}] : k \in 0..MaxEmph }

InitSpans ==
    /\ \E w \in {InlineStart({})} :
          /\ doc = w.doc
          /\ opts = w.opts
          /\ tree = w.tree
          /\ heap = w.heap
          /\ stack = << InlineFrame(Cur(w), 0, 0, 0) >>
    /\ data \in CodeSpans \cup EmphSpans
    /\ pc = "inline_text"
    /\ ret = [root |-> NULL, maxn |-> 0]
    /\ ncalls = 1
    /\ input = [of |-> {}, more |-> 0]
    /\ out = <<>>

SpecSpans == InitSpans /\ [][NextInline]_vars

(***************************************************************************)
(* Tables: parse_table on a buffer that starts with the header line.  The  *)
(* lines of a buffer end with a newline, as lowdown_doc_parse leaves them. *)
(***************************************************************************)
\* lowdown_doc_parse up to the call of parse_block on the text
BlockStart(feat) ==
    LET body(w1) == popnode(w1, Cur(w1))
    IN body(doc_parse_begin(
               [doc |-> lowdown_doc_new([feat |-> feat, maxdepth |-> 0]),
                opts |-> [meta |-> <<>>, metaovr |-> <<>>],
                tree |-> <<>>, heap |-> {}, err |-> "none", b |-> NULL],
               <<>>))

\* the number of pipes among the bytes i..(to - 1)
RECURSIVE count_pipes(_, _, _)
count_pipes(d, i, to) ==
    IF i >= to THEN 0
    ELSE (IF B(d, i) = "|" THEN 1 ELSE 0) + count_pipes(d, i + 1, to)

\* "while (e > from && xisspace(data[e - 1])) e--"
RECURSIVE trim_end(_, _, _)
trim_end(d, from, e) ==
    IF e > from /\ xisspace(B(d, e - 1)) THEN trim_end(d, from, e - 1) ELSE e

\* "nn->rndr_table_cell.col = col; nn->rndr_table_cell.columns = columns"
table_cell_fields(w, col, columns) ==
    IF w.err # "none" THEN w
    ELSE [w EXCEPT !.tree[Cur(w)].col = col,
                   !.tree[Cur(w)].columns = columns]

\* the TABLE_CELL nn that was pushed is filled, parsed into and popped
table_cell_body(w, body, col, columns) ==
    popnode(parse_inline(table_cell_fields(w, col, columns), body), Cur(w))

\* a TABLE_CELL with the inline parse of the bytes body; a padding cell is
\* the same with no bytes and no inline parse
table_cell(w, body, col, columns) ==
    table_cell_body(pushnode(w, "TABLE_CELL"), body, col, columns)

\* the length of the cell that starts at cell_start: up to the next pipe
\* that is not escaped or in a span, or the rest of the row
cell_len(d, cell_start) ==
    LET pick(found) ==
            IF found = 0 /\ cell_start < Len(d) /\ B(d, cell_start) # "|"
            THEN Len(d) - cell_start ELSE found
    IN pick(find_emph_char(From(d, cell_start), "|"))

\* the bytes of the cell at cell_start of length len, without the white
\* space at its end
cell_bytes(d, cell_start, len) ==
    SubSeq(d, cell_start + 1,
           trim_end(d, cell_start + 1, cell_start + len))

\* where parse_table_row starts in the bytes d of a line: after a leading
\* pipe
table_row_start(d) == IF Len(d) > 0 /\ B(d, 0) = "|" THEN 1 ELSE 0

\* an iteration of the first loop of parse_table_row only: a row that has
\* run out of bytes gets no cell for the column
table_row_cell_no_padding(w, d, columns, col, i, cell_start, len) ==
    IF i < Len(d)
    THEN [w |-> table_cell(w, cell_bytes(d, cell_start, len), col, columns),
          i |-> cell_start + len + 1]
    ELSE [w |-> w, i |-> i]

\* one iteration of the loops of parse_table_row on the bytes d of a line,
\* with col cells made and the index at i: of the first loop while bytes
\* are left (the cell starts at cell_start and has length len), of the
\* second after that; the world and the new i
table_row_cell(w, d, columns, col, i, cell_start, len) ==
    [w |-> table_cell(w, IF i < Len(d) THEN cell_bytes(d, cell_start, len)
                         ELSE <<>>,
                      col, columns),
     i |-> IF i < Len(d) THEN cell_start + len + 1 ELSE i]

\* the white space before the cell is skipped
table_row_cell_from(w, d, columns, col, i, cell_start) ==
    table_row_cell(w, d, columns, col, i, cell_start,
                   cell_len(d, cell_start))

\* the column count parse_table_header takes from the first line of d, 0
\* when the line is no header
header_columns(d) ==
    LET eol == ScanTo(d, 0, {"\n"})
        pipes == count_pipes(d, 0, eol)
        header_end == trim_end(d, 0, eol)
        inner == pipes - (IF B(d, 0) = "|" THEN 1 ELSE 0)
                       - (IF header_end > 0 /\ B(d, header_end - 1) = "|"
                          THEN 1 ELSE 0)
    IN IF eol = Len(d) \/ pipes = 0 THEN 0
       ELSE IF inner < 0 THEN 0
       ELSE inner + 1

\* the loop over the header underline: the number of columns it describes
RECURSIVE under_cols(_, _, _, _, _)
under_cols(d, i, under_end, col, columns) ==
    LET i1 == countspaces(d, i, under_end, 0)
        left == IF B(d, i1) = ":" THEN 1 ELSE 0
        i2 == ScanPast(Take(d, under_end), i1 + left, {"-"})
        right == IF i2 < under_end /\ B(d, i2) = ":" THEN 1 ELSE 0
        dashes == left + (i2 - (i1 + left)) + right
        i3 == countspaces(d, i2 + right, under_end, 0)
    IN IF ~(col < columns /\ i < under_end) THEN col
       ELSE IF i3 < under_end /\ B(d, i3) \notin {"|", "+"} THEN col
       ELSE IF dashes < 3 THEN col
       ELSE under_cols(d, i3 + 1, under_end, col + 1, columns)

\* parse_table_header up to its call of parse_table_row: the world with
\* TABLE_BLOCK n and TABLE_HEADER pushed, what it will return (i), the
\* column count, col_data and the end of the header line; i is 0 and no
\* node is made when the two lines are no header
parse_table_header(w, d) ==
    LET result(wc, columns, eol, i0) ==
            LET block(w1) ==
                    IF w1.err # "none" THEN w1
                    ELSE [w1 EXCEPT !.tree[Cur(w1)].columns = columns]
                header(w2) == pushbuffer(block(w2), Cur(w2), "flags", 1)
                pushed(wb) ==
                    [w |-> header(pushnode(block(wb), "TABLE_HEADER")),
                     n |-> Cur(wb), i |-> ScanTo(d, i0, {"\n"}) + 1,
                     columns |-> columns, col_data |-> wc.b,
                     header_end |-> trim_end(d, 0, eol)]
            IN IF under_cols(d, i0, ScanTo(d, i0, {"\n"}), 0, columns)
                  < columns
               THEN [w |-> wc, n |-> NULL, i |-> 0, columns |-> columns,
                     col_data |-> wc.b, header_end |-> 0]
               ELSE pushed(pushnode(wc, "TABLE_BLOCK"))
        under(columns, eol) ==
            IF columns = 0
            THEN [w |-> w, n |-> NULL, i |-> 0, columns |-> 0,
                  col_data |-> NULL, header_end |-> 0]
            ELSE result(hbuf_new(w), columns, eol,          \* *column_data
                        IF eol + 1 < Len(d) /\ B(d, eol + 1) = "|"
                        THEN eol + 2 ELSE eol + 1)
    IN under(header_columns(d), ScanTo(d, 0, {"\n"}))

\* the header lines, underlines and body rows the buffers are made of
TableHeads ==
    { <<"a">>, <<"|">>, <<"a", "|">>, <<"|", "a">>, <<"a", "|", "a">>,
      <<"|", "a", "|", "a", "|">>, <<"a", "|", "a", "|", "a">>,
      <<"a", "\\", "|", "a">>, <<"a", "|", " ">> }

TableUnders ==
    { <<"-", "-", "-">>, <<"-", "-", "-", "|", "-", "-", "-">>,
      <<"|", ":", "-", "-", "|", "-", "-", ":">>,
      <<"-", "-", "-", "|", "-", "-">>,
      <<"-", "-", "-", "|", "-", "-", "-", "|", "-", "-", "-">> }

TableRows ==
    { <<"a">>, <<"|">>, <<"a", "|">>, <<"|", "a">>, <<"a", "|", "a">>,
      <<"|", "|">>, <<"a", "|", "|", "a">>, <<"a", "\\", "|", "a">>,
      <<"a", "|", "a", "|", "a", "|", "a">>, <<" ", "|", " ", "a", " ">>,
      <<"|", "a", "|", "a", "|">> }

\* the most body lines a buffer has
MaxRows == 2

RECURSIVE JoinLines(_)
JoinLines(ls) ==
    IF ls = <<>> THEN <<>> ELSE Head(ls) \o <<"\n">> \o JoinLines(Tail(ls))

TableTexts ==
    { JoinLines(<<h, u>> \o rs) :
        h \in TableHeads, u \in TableUnders,
        rs \in UNION { [1..k -> TableRows] : k \in 0..MaxRows } }

\* the locals of parse_table and of the parse_table_row it is in: the
\* TABLE_BLOCK n, the work buffers and col_data, the index i parse_table
\* goes on from, the column count, the bytes from..(to - 1) of the row, the
\* index ri into them, the cells made (col) and header_flag
TableFrame(n, bufs, i, columns, from, to, ri, col, header_flag) ==
    Frame("parse_table", n, "block", bufs,
          <<i, columns, from, to, ri, col, header_flag>>)

InitTable ==
    /\ \E w \in {BlockStart({})} :
          /\ doc = w.doc
          /\ opts = w.opts
          /\ tree = w.tree
          /\ heap = w.heap
    /\ stack = <<>>
    /\ data \in TableTexts
    /\ pc = "parse_table"
    /\ ret = [root |-> NULL, maxn |-> 0]
    /\ ncalls = 1
    /\ input = [of |-> {}, more |-> 0]
    /\ out = <<>>

\* parse_table up to the loops of the first parse_table_row: the work
\* buffers, parse_table_header and, when that accepts the header, the
\* TABLE_ROW of the header line
TableHeader ==
    /\ pc = "parse_table"
    /\ \E w0 \in {hbuf_new(World)} :                        \* header_work
       \E w1 \in {hbuf_new(w0)} :                           \* body_work
       \E r \in {parse_table_header(w1, data)} :
          IF r.i > 0
          THEN Commit(pushnode(r.w, "TABLE_ROW"),
                      << TableFrame(r.n, <<w0.b, w1.b, r.col_data>>,
                                    r.i, r.columns, 0, r.header_end,
                                    table_row_start(Take(data, r.header_end)),
                                    0, 1) >>,
                      "table_row")
          ELSE Commit(r.w, << TableFrame(NULL, <<w0.b, w1.b, r.col_data>>,
                                         0, r.columns, 0, 0, 0, 0, 0) >>,
                      "table_end")
    /\ UNCHANGED <<ret, ncalls, input, data, out>>

\* one iteration of the loops of parse_table_row: a cell of the row
TableCell ==
    /\ pc = "table_row"
    /\ Top.aux[6] < Top.aux[2]
    /\ \E d \in {SubSeq(data, Top.aux[3] + 1, Top.aux[4])} :
       \E c \in {table_row_cell_from(
                     World, d, Top.aux[2], Top.aux[6], Top.aux[5],
                     ScanPast(d, Top.aux[5], {" ", "\n"}))} :
          Commit(c.w, << [Top EXCEPT !.aux[5] = c.i, !.aux[6] = @ + 1] >>,
                 "table_row")
    /\ UNCHANGED <<ret, ncalls, input, data, out>>

\* the end of parse_table_row; after the header row parse_table_header
\* pops TABLE_HEADER and returns, and parse_table pushes TABLE_BODY
TableRowEnd ==
    /\ pc = "table_row"
    /\ Top.aux[6] >= Top.aux[2]
    /\ \E w1 \in {popnode(World, Cur(World))} :
          IF Top.aux[7] = 1
          THEN Commit(pushnode(popnode(w1, Cur(w1)), "TABLE_BODY"),
                      << [Top EXCEPT !.aux[7] = 0] >>, "table_body")
          ELSE Commit(w1, stack, "table_body")
    /\ UNCHANGED <<ret, ncalls, input, data, out>>

\* whether the loop of parse_table takes the line at i as a row
TableRowAt(d, i) ==
    /\ i < Len(d)
    /\ count_pipes(d, i, ScanTo(d, i, {"\n"})) > 0
    /\ ScanTo(d, i, {"\n"}) < Len(d)

\* one iteration of the loop of parse_table: parse_table_row is called on
\* the line at i and pushes its TABLE_ROW
TableRow ==
    /\ pc = "table_body"
    /\ TableRowAt(data, Top.aux[1])
    /\ \E i \in {Top.aux[1]} :
       \E eol \in {ScanTo(data, i, {"\n"})} :
          Commit(pushnode(World, "TABLE_ROW"),
                 << [Top EXCEPT
                       !.aux[1] = eol + 1, !.aux[3] = i, !.aux[4] = eol,
                       !.aux[5] = table_row_start(SubSeq(data, i + 1, eol)),
                       !.aux[6] = 0] >>,
                 "table_row")
    /\ UNCHANGED <<ret, ncalls, input, data, out>>

\* the loop of parse_table ends: TABLE_BODY and TABLE_BLOCK are popped
TableBodyEnd ==
    /\ pc = "table_body"
    /\ ~TableRowAt(data, Top.aux[1])
    /\ Commit(popnode(popnode(World, Cur(World)), Top.n), stack, "table_end")
    /\ UNCHANGED <<ret, ncalls, input, data, out>>

\* the end of parse_table: col_data and the work buffers are freed, i is
\* returned
TableEnd ==
    /\ pc = "table_end"
    /\ Commit(hbuf_free(hbuf_free(hbuf_free(World, Top.bufs[3]), Top.bufs[1]),
                        Top.bufs[2]),
              <<>>, "table_done")
    /\ out' = <<Top.aux[1]>>
    /\ UNCHANGED <<ret, ncalls, input, data>>

NextTable ==
    \/ TableHeader
    \/ TableCell
    \/ TableRowEnd
    \/ TableRow
    \/ TableBodyEnd
    \/ TableEnd

SpecTable == InitTable /\ [][NextTable]_vars

(***************************************************************************)
(* The block pass byte by byte: the tests of parse_block on the bytes d    *)
(* that start at its offset (data + beg, size - beg in the code).          *)
(***************************************************************************)
isdigit(c) == c \in {"0", "1", "2", "3", "4", "5", "6", "7", "8", "9"}

\* the end of the line that starts at i: one past its newline, or the size
line_end(d, i) ==
    IF ScanTo(d, i, {"\n"}) < Len(d) THEN ScanTo(d, i, {"\n"}) + 1 ELSE Len(d)

\* is_empty: the length of the first line when it is blank, 0 otherwise
is_empty(d) ==
    IF ScanPast(d, 0, {" "}) < ScanTo(d, 0, {"\n"}) THEN 0
    ELSE ScanTo(d, 0, {"\n"}) + 1

\* is_hrule
is_hrule(d) ==
    LET size == Len(d)
        i == countspaces(d, 0, size, 3)
        eol == ScanTo(d, i, {"\n"})
    IN /\ size >= 3
       /\ i + 2 < size
       /\ B(d, i) \in {"*", "-", "_"}
       /\ \A k \in i..(eol - 1) : B(d, k) \in {B(d, i), " "}
       /\ Cardinality({ k \in i..(eol - 1) : B(d, k) = B(d, i) }) >= 3

\* is_codefence: the end of the fence (0 when the line is none), its width
\* and its character.  The byte at i is read before i is tested against the
\* size; what was read is not used when the test fails.
is_codefence(d) ==
    LET size == Len(d)
        i == countspaces(d, 0, size, 3)
        none == [i |-> 0, width |-> 0, chr |-> ""]
        fence(c, e) == IF e - i < 3 THEN none
                       ELSE [i |-> e, width |-> e - i, chr |-> c]
    IN IF size < 3 \/ i + 2 >= size THEN none
       ELSE IF B(d, i) \notin {"~", Tick} THEN none
       ELSE fence(B(d, i), ScanPast(d, i + 1, {B(d, i)}))

\* "while (i < size && !(data[i] == *chr && data[i-1] == *chr &&
\* data[i-2] == *chr)) i++"
RECURSIVE fence_in_lang(_, _, _)
fence_in_lang(d, chr, i) ==
    IF i < Len(d)
       /\ ~(B(d, i) = chr /\ B(d, i - 1) = chr /\ B(d, i - 2) = chr)
    THEN fence_in_lang(d, chr, i + 1) ELSE i

\* parse_codefence on the one line d, without its newline: is_codefence,
\* but 0 when three fence characters in a row follow the fence
parse_codefence(d) ==
    LET f == is_codefence(d)
        lang_start == ScanPast(d, f.i, {" ", "\n"})
    IN IF f.i = 0 THEN f
       ELSE IF fence_in_lang(d, f.chr, lang_start + 2) < Len(d)
       THEN [i |-> 0, width |-> 0, chr |-> ""]
       ELSE f

\* is_atxheader
is_atxheader(dc, d) ==
    LET level == ScanPast(Take(d, IF Len(d) < 6 THEN Len(d) ELSE 6), 0, {"#"})
    IN /\ B(d, 0) = "#"
       /\ "COMMONMARK" \in dc.ext_flags => ~(level < Len(d) /\ B(d, level) # " ")

\* is_headerline: 1 for an underline of "=", 2 for one of "-", 0 otherwise
is_headerline(d) ==
    LET hchr == B(d, 0)
        i == countspaces(d, ScanPast(d, 1, {hchr}), Len(d), 0)
    IN IF hchr \notin {"=", "-"} THEN 0
       ELSE IF i >= Len(d) \/ B(d, i) = "\n"
       THEN (IF hchr = "=" THEN 1 ELSE 2)
       ELSE 0

\* is_next_headerline
is_next_headerline(d) ==
    IF ScanTo(d, 0, {"\n"}) + 1 >= Len(d) THEN 0
    ELSE is_headerline(From(d, ScanTo(d, 0, {"\n"}) + 1))

\* prefix_dli
prefix_dli(dc, d) ==
    LET i == countspaces(d, 0, Len(d), 3)
    IN IF "DEFLIST" \notin dc.ext_flags THEN 0
       ELSE IF i + 1 >= Len(d) \/ B(d, i) # ":" \/ B(d, i + 1) # " " THEN 0
       ELSE IF is_next_headerline(From(d, i)) # 0 THEN 0
       ELSE i + 2

\* prefix_quote
prefix_quote(d) ==
    LET i == countspaces(d, 0, Len(d), 3)
    IN IF i < Len(d) /\ B(d, i) = ">"
       THEN countspaces(d, i + 1, Len(d), 1) ELSE 0

\* prefix_code
prefix_code(d) == IF countspaces(d, 0, Len(d), 4) = 4 THEN 4 ELSE 0

\* prefix_oli, without the copy of the number into value
prefix_oli(dc, d) ==
    LET st == countspaces(d, 0, Len(d), 3)
        i == ScanPast(d, st, {"0", "1", "2", "3", "4", "5", "6", "7", "8", "9"})
        marks == IF "COMMONMARK" \in dc.ext_flags THEN {".", ")"} ELSE {"."}
    IN IF st >= Len(d) \/ ~isdigit(B(d, st)) THEN 0
       ELSE IF "COMMONMARK" \in dc.ext_flags /\ i - st > 9 THEN 0
       ELSE IF i + 1 >= Len(d) \/ B(d, i) \notin marks \/ B(d, i + 1) # " "
       THEN 0
       ELSE IF is_next_headerline(From(d, i)) # 0 THEN 0
       ELSE i + 2

\* prefix_uli
prefix_uli(d) ==
    LET i == countspaces(d, 0, Len(d), 3)
    IN IF i + 1 >= Len(d) \/ B(d, i) \notin {"*", "+", "-"}
          \/ B(d, i + 1) # " "
       THEN 0
       ELSE IF is_next_headerline(From(d, i)) # 0 THEN 0
       ELSE i + 2

\* the loop of parse_paragraph from the line at i, with lines lines taken:
\* where the paragraph ends (i), what parse_paragraph returns (end), the
\* level of the underline it stopped at and beoln
RECURSIVE paragraph_scan(_, _, _, _)
paragraph_scan(dc, d, i, lines) ==
    IF i >= Len(d)
    THEN [i |-> i, end |-> i, level |-> 0, beoln |-> 0, lines |-> lines]
    ELSE IF is_empty(From(d, i)) # 0
    THEN [i |-> i, end |-> line_end(d, i), level |-> 0, beoln |-> 1,
          lines |-> lines]
    ELSE IF is_headerline(From(d, i)) # 0
    THEN [i |-> i, end |-> line_end(d, i),
          level |-> is_headerline(From(d, i)), beoln |-> 0, lines |-> lines]
    ELSE IF \/ is_atxheader(dc, From(d, i))
            \/ is_hrule(From(d, i))
            \/ (lines = 1 /\ prefix_dli(dc, From(d, i)) # 0)
            \/ prefix_quote(From(d, i)) # 0
    THEN [i |-> i, end |-> i, level |-> 0, beoln |-> 0, lines |-> lines]
    ELSE paragraph_scan(dc, d, line_end(d, i), lines + 1)

\* "while (work.size && data[work.size - 1] == '\n') work.size--"
RECURSIVE trim_newlines(_, _)
trim_newlines(d, size) ==
    IF size > 0 /\ B(d, size - 1) = "\n" THEN trim_newlines(d, size - 1)
    ELSE size

\* "while (work.size && data[work.size] != '\n') work.size -= 1"
RECURSIVE last_line_start(_, _)
last_line_start(d, size) ==
    IF size > 0 /\ B(d, size) # "\n" THEN last_line_start(d, size - 1)
    ELSE size

\* the bytes parse_paragraph gives to its nodes, from the result s of its
\* loop: the bytes of the PARAGRAPH (none: no PARAGRAPH), its lines, the
\* bytes of the HEADER and its level (0: no HEADER)
paragraph_parts(d, s) ==
    LET size == trim_newlines(d, s.i)
        cut == last_line_start(d, size - 1)
        before == trim_newlines(d, cut)
    IN IF s.level = 0
       THEN [par |-> <<Take(d, size)>>, lines |-> s.lines, beoln |-> s.beoln,
             header |-> <<>>, level |-> 0]
       ELSE IF size > 0 /\ before > 0
       THEN [par |-> <<Take(d, before)>>, lines |-> s.lines - 1,
             beoln |-> s.beoln,
             header |-> <<SubSeq(d, cut + 2, size)>>, level |-> s.level]
       ELSE [par |-> <<>>, lines |-> 0, beoln |-> 0,
             header |-> <<Take(d, size)>>, level |-> s.level]

\* the loop of parse_blockquote from the line at beg: the bytes gathered in
\* work_data and what parse_blockquote returns (end)
RECURSIVE blockquote_scan(_, _, _)
blockquote_scan(d, beg, work) ==
    LET end == line_end(d, beg)
        line == SubSeq(d, beg + 1, end)
        pre == prefix_quote(line)
    IN IF beg >= Len(d) THEN [work |-> work, end |-> beg]
       ELSE IF /\ pre = 0
               /\ is_empty(line) # 0
               /\ \/ end >= Len(d)
                  \/ /\ prefix_quote(From(d, end)) = 0
                     /\ is_empty(From(d, end)) = 0
       THEN [work |-> work, end |-> end]
       ELSE blockquote_scan(d, end, work \o SubSeq(d, beg + pre + 1, end))

\* "while (work->size && work->data[work->size - 1] == '\n')
\* work->size -= 1; hbuf_putc(work, '\n')"
one_newline(work) == Append(Take(work, trim_newlines(work, Len(work))), "\n")

\* the loop of parse_blockcode from the line at beg: the bytes gathered in
\* work and what parse_blockcode returns (beg)
RECURSIVE blockcode_scan(_, _, _)
blockcode_scan(d, beg, work) ==
    LET end == line_end(d, beg)
        line == SubSeq(d, beg + 1, end)
        pre == prefix_code(line)
        rest == SubSeq(d, beg + pre + 1, end)
    IN IF beg >= Len(d) THEN [work |-> work, beg |-> beg]
       ELSE IF pre = 0 /\ is_empty(line) = 0 THEN [work |-> work, beg |-> beg]
       ELSE blockcode_scan(d, end,
                IF rest = <<>> THEN work
                ELSE IF is_empty(rest) # 0 THEN Append(work, "\n")
                ELSE work \o rest)

\* a search for the closing fence that gives up after one line
fence_close_one_line(d, f, i) ==
    LET eol == ScanTo(d, i, {"\n"})
        f2 == is_codefence(SubSeq(d, i + 1, eol))
    IN IF i >= Len(d) THEN [line_start |-> i, i |-> i]
       ELSE IF f2 = f /\ is_empty(SubSeq(d, i + f.i + 1, eol)) # 0
       THEN [line_start |-> i, i |-> eol]
       ELSE [line_start |-> eol + 1, i |-> eol + 1]

\* the search of parse_fencedcode for the line that closes the fence f,
\* from the line at i: line_start and i when the loop ends
RECURSIVE fence_close(_, _, _)
fence_close(d, f, i) ==
    LET eol == ScanTo(d, i, {"\n"})
        f2 == is_codefence(SubSeq(d, i + 1, eol))
    IN IF i >= Len(d) THEN [line_start |-> i, i |-> i]
       ELSE IF f2 = f /\ is_empty(SubSeq(d, i + f.i + 1, eol)) # 0
       THEN [line_start |-> i, i |-> eol]
       ELSE fence_close(d, f, eol + 1)

\* what parse_fencedcode finds in d: the fence of the first line (i = 0:
\* none, and parse_fencedcode returns 0), the bytes of lang, and where the
\* text starts and the search for the closing fence ends
fencedcode_scan(d) ==
    LET eol == ScanTo(d, 0, {"\n"})
        line == Take(d, eol)
        f == parse_codefence(line)
        lang_start == ScanPast(line, f.i, {" ", "\n"})
    IN [f |-> f,
        lang |-> IF f.i = 0 THEN <<>>
                 ELSE SubSeq(line, lang_start + 1,
                             ScanTo(line, lang_start, {" ", "\n"})),
        text_start |-> eol + 1,
        close |-> IF f.i = 0 THEN [line_start |-> 0, i |-> 0]
                  ELSE fence_close(d, f, eol + 1)]

\* the list type in flags: "ff = *flags & HLIST_FL_MASK"
list_type(flags) == flags \cap {"ORDERED", "UNORDERED", "DEF"}

\* one iteration of the loop of parse_listitem on the line at s.beg, with
\* the locals in s; stop is set where the code breaks
listitem_line(dc, d, s, orgpre) ==
    LET end == line_end(d, s.beg)
        i == countspaces(d, s.beg, end, 4) - s.beg
        slice == SubSeq(d, s.beg + i + 1, end)
        in_fence == IF "FENCED" \in dc.ext_flags /\ is_codefence(slice).i # 0
                    THEN 1 - s.in_fence ELSE s.in_fence
        dli_lines == s.dli_lines + 1
        has_next_uli == in_fence = 0 /\ prefix_uli(slice) # 0
        has_next_dli == in_fence = 0 /\ dli_lines <= 2
                        /\ prefix_dli(dc, slice) # 0
        has_next_oli == in_fence = 0 /\ prefix_oli(dc, slice) # 0
        next_item == \/ has_next_uli /\ ~is_hrule(slice)
                     \/ has_next_oli
                     \/ has_next_dli
        other_type ==
            \/ list_type(s.flags) = {"ORDERED"}
               /\ (has_next_uli \/ has_next_dli)
            \/ list_type(s.flags) = {"UNORDERED"}
               /\ (has_next_oli \/ has_next_dli)
            \/ list_type(s.flags) = {"DEF"}
               /\ (has_next_oli \/ has_next_uli)
        seen == [s EXCEPT
                   !.in_fence = in_fence,
                   !.dli_lines = IF has_next_uli \/ has_next_dli
                                    \/ has_next_oli
                                 THEN 0 ELSE dli_lines]
    IN IF is_empty(SubSeq(d, s.beg + 1, end)) # 0
       THEN [s EXCEPT !.in_empty = 1, !.beg = end, !.dli_lines = 0]
       ELSE IF next_item /\ i <= orgpre
       THEN [seen EXCEPT
               !.stop = TRUE,
               !.has_inside_empty = IF s.in_empty = 1 THEN 1 ELSE @,
               !.flags = IF s.in_empty = 1 /\ other_type
                         THEN @ \cup {"LI_END"} ELSE @]
       ELSE IF ~next_item /\ s.in_empty = 1 /\ i = 0
       THEN [seen EXCEPT !.stop = TRUE, !.flags = @ \cup {"LI_END"}]
       ELSE [seen EXCEPT
               !.has_inside_empty = IF s.in_empty = 1 THEN 1 ELSE @,
               !.in_empty = 0,
               !.sublist = IF next_item /\ @ = 0 THEN Len(s.work) ELSE @,
               !.work = (IF s.in_empty = 1 THEN Append(@, "\n") ELSE @)
                        \o slice,
               !.beg = end]

RECURSIVE listitem_loop(_, _, _, _)
listitem_loop(dc, d, s, orgpre) ==
    IF s.stop \/ s.beg >= Len(d) THEN s
    ELSE listitem_loop(dc, d, listitem_line(dc, d, s, orgpre), orgpre)

\* the prefix parse_listitem finds at the start of d, 0 when there is none
listitem_prefix(dc, d) ==
    IF prefix_uli(d) # 0 THEN prefix_uli(d)
    ELSE IF prefix_oli(dc, d) # 0 THEN prefix_oli(dc, d)
    ELSE prefix_dli(dc, d)

\* parse_listitem up to its pushnode: what it will return (beg, 0 when d
\* starts with no prefix), the bytes in work, sublist and the flags
listitem_scan(dc, d, flags) ==
    LET beg == listitem_prefix(dc, d)
        end == line_end(d, beg)
        done(s) == [s EXCEPT !.flags = IF s.has_inside_empty = 1
                                       THEN @ \cup {"BLOCK"} ELSE @]
    IN IF beg = 0
       THEN [beg |-> 0, work |-> <<>>, sublist |-> 0, flags |-> flags]
       ELSE done(listitem_loop(dc, d,
                [beg |-> end, work |-> SubSeq(d, beg + 1, end),
                 sublist |-> 0, flags |-> flags, in_empty |-> 0,
                 has_inside_empty |-> 0, in_fence |-> 0, dli_lines |-> 1,
                 stop |-> FALSE],
                countspaces(d, 0, Len(d), 3)))

\* what parse_table would return for the bytes d up to its loop: where the
\* header and its underline end, 0 when they are no table header
table_header_end(d) ==
    LET check(columns, i0) ==
            IF under_cols(d, i0, ScanTo(d, i0, {"\n"}), 0, columns) < columns
            THEN 0 ELSE ScanTo(d, i0, {"\n"}) + 1
        under(columns, eol) ==
            IF columns = 0 THEN 0
            ELSE check(columns, IF eol + 1 < Len(d) /\ B(d, eol + 1) = "|"
                                THEN eol + 2 ELSE eol + 1)
    IN under(header_columns(d), ScanTo(d, 0, {"\n"}))

\* the letters tolower changes and what it makes of them
UpperCase ==
    << "A", "B", "C", "D", "E", "F", "G", "H", "I", "J", "K", "L", "M",
       "N", "O", "P", "Q", "R", "S", "T", "U", "V", "W", "X", "Y", "Z" >>

LowerCase ==
    << "a", "b", "c", "d", "e", "f", "g", "h", "i", "j", "k", "l", "m",
       "n", "o", "p", "q", "r", "s", "t", "u", "v", "w", "x", "y", "z" >>

tolower(c) ==
    IF \E k \in DOMAIN UpperCase : UpperCase[k] = c
    THEN LowerCase[CHOOSE k \in DOMAIN UpperCase : UpperCase[k] = c]
    ELSE c

\* strncasecmp(s, str, len) == 0 from index i on, for the string s, which a
\* NUL ends, and the bytes str, none of which is a NUL: the comparison ends
\* after len bytes
RECURSIVE strncasecmp(_, _, _, _)
strncasecmp(s, str, len, i) ==
    IF i >= len THEN TRUE
    ELSE IF i >= Len(s) \/ i >= Len(str) THEN FALSE
    ELSE IF tolower(B(s, i)) # tolower(B(str, i)) THEN FALSE
    ELSE strncasecmp(s, str, len, i + 1)

\* the tags of hhtml_find_block, in its order
tags ==
    << <<"a", "d", "d", "r", "e", "s", "s">>,
       <<"a", "r", "t", "i", "c", "l", "e">>,
       <<"a", "s", "i", "d", "e">>,
       <<"b", "l", "o", "c", "k", "q", "u", "o", "t", "e">>,
       <<"d", "e", "l">>,
       <<"d", "e", "t", "a", "i", "l", "s">>,
       <<"d", "i", "a", "l", "o", "g">>,
       <<"d", "d">>,
       <<"d", "i", "v">>,
       <<"d", "l">>,
       <<"d", "t">>,
       <<"f", "i", "e", "l", "d", "s", "e", "t">>,
       <<"f", "i", "g", "c", "a", "p", "t", "i", "o", "n">>,
       <<"f", "i", "g", "u", "r", "e">>,
       <<"f", "o", "o", "t", "e", "r">>,
       <<"f", "o", "r", "m">>,
       <<"h", "1">>,
       <<"h", "2">>,
       <<"h", "3">>,
       <<"h", "4">>,
       <<"h", "5">>,
       <<"h", "6">>,
       <<"h", "e", "a", "d", "e", "r">>,
       <<"h", "g", "r", "o", "u", "p">>,
       <<"i", "f", "r", "a", "m", "e">>,
       <<"i", "n", "s">>,
       <<"l", "i">>,
       <<"m", "a", "i", "n">>,
       <<"m", "a", "t", "h">>,
       <<"n", "a", "v">>,
       <<"n", "o", "s", "c", "r", "i", "p", "t">>,
       <<"o", "l">>,
       <<"p">>,
       <<"p", "r", "e">>,
       <<"s", "e", "c", "t", "i", "o", "n">>,
       <<"s", "c", "r", "i", "p", "t">>,
       <<"s", "t", "y", "l", "e">>,
       <<"t", "a", "b", "l", "e">>,
       <<"u", "l">> >>

\* hhtml_find_block(str, len): the first tag that strncasecmp finds equal
\* to str in its first len bytes, in a sequence of its own, or <<>>
hhtml_find_block(str) ==
    LET hits == { k \in DOMAIN tags : strncasecmp(tags[k], str, Len(str), 0) }
    IN IF hits = {} THEN <<>>
       ELSE << tags[CHOOSE k \in hits : \A j \in hits : k <= j] >>

\* htmlblock_is_end on bytes that start with "<"
htmlblock_is_end(tag, d) ==
    LET i == Len(tag) + 3
    IN IF i > Len(d) THEN 0
       ELSE IF B(d, 1) # "/" THEN 0
       ELSE IF ~strncasecmp(From(d, 2), tag, Len(tag), 0) THEN 0
       ELSE IF B(d, Len(tag) + 2) # ">" THEN 0
       ELSE IF is_empty(From(d, i)) = 0 /\ i < Len(d) THEN 0
       ELSE i + is_empty(From(d, i))

\* htmlblock_find_end with its index at i
RECURSIVE htmlblock_find_end(_, _, _)
htmlblock_find_end(tag, d, i) ==
    IF ScanTo(d, i, {"<"}) >= Len(d) THEN 0
    ELSE IF htmlblock_is_end(tag, From(d, ScanTo(d, i, {"<"}))) # 0
    THEN ScanTo(d, i, {"<"})
         + htmlblock_is_end(tag, From(d, ScanTo(d, i, {"<"})))
    ELSE htmlblock_find_end(tag, d, ScanTo(d, i, {"<"}) + 1)

\* htmlblock_find_end_strict with its index at mark
RECURSIVE htmlblock_find_end_strict(_, _, _)
htmlblock_find_end_strict(tag, d, mark) ==
    IF line_end(d, mark) = mark THEN 0
    ELSE IF B(d, mark) = " " /\ mark > 0
    THEN htmlblock_find_end_strict(tag, d, line_end(d, mark))
    ELSE IF /\ mark + htmlblock_find_end(
                         tag, SubSeq(d, mark + 1, line_end(d, mark)), 0)
                  = line_end(d, mark)
            /\ \/ is_empty(From(d, line_end(d, mark))) # 0
               \/ line_end(d, mark) >= Len(d)
    THEN line_end(d, mark)
    ELSE htmlblock_find_end_strict(tag, d, line_end(d, mark))

\* the loop of parse_htmlblock that looks for the end of a comment
RECURSIVE comment_end(_, _)
comment_end(d, i) ==
    IF i < Len(d) /\ ~(B(d, i - 2) = "-" /\ B(d, i - 1) = "-" /\ B(d, i) = ">")
    THEN comment_end(d, i + 1)
    ELSE i

\* parse_htmlblock when hhtml_find_block found no tag: a comment or an HR
htmlblock_special(d) ==
    LET size == Len(d)
        ci == comment_end(d, 5) + 1
        cj == IF ci < size THEN is_empty(From(d, ci)) ELSE 0
        hi == ScanTo(d, 3, {">"})
        hj == IF hi + 1 < size THEN is_empty(From(d, hi + 1)) ELSE 0
    IN IF /\ size > 5 /\ B(d, 1) = "!" /\ B(d, 2) = "-" /\ B(d, 3) = "-"
          /\ cj # 0
       THEN ci + cj
       ELSE IF /\ size > 4 /\ B(d, 1) \in {"h", "H"} /\ B(d, 2) \in {"r", "R"}
               /\ hj # 0
       THEN hi + 1 + hj
       ELSE 0

\* parse_htmlblock: the size of the BLOCKHTML it makes of the bytes d, 0
\* when it makes none
parse_htmlblock(d) ==
    LET size == Len(d)
        i == ScanTo(d, 1, {">", " "})
        curtag == IF i < size THEN hhtml_find_block(SubSeq(d, 2, i)) ELSE <<>>
        strict == htmlblock_find_end_strict(curtag[1], d, 0)
    IN IF size < 2 \/ B(d, 0) # "<" THEN 0
       ELSE IF curtag = <<>> THEN htmlblock_special(d)
       ELSE IF strict = 0 /\ curtag[1] \notin {<<"i", "n", "s">>,
                                               <<"d", "e", "l">>}
       THEN htmlblock_find_end(curtag[1], d, 0)
       ELSE strict

\* the chain of tests of parse_block with hrule and the unordered list
\* exchanged
block_kind_list_first(w, d) ==
    IF is_atxheader(w.doc, d) THEN "atxheader"
    ELSE IF d # <<>> /\ B(d, 0) = "<" /\ parse_htmlblock(d) # 0
    THEN "htmlblock"
    ELSE IF is_empty(d) # 0 THEN "empty"
    ELSE IF prefix_uli(d) # 0 THEN "uli"
    ELSE IF "FENCED" \in w.doc.ext_flags /\ fencedcode_scan(d).f.i # 0
    THEN "fencedcode"
    ELSE IF "TABLES" \in w.doc.ext_flags /\ table_header_end(d) # 0
    THEN "table"
    ELSE IF prefix_quote(d) # 0 THEN "blockquote"
    ELSE IF "NOCODEIND" \notin w.doc.ext_flags /\ prefix_code(d) # 0
    THEN "blockcode"
    ELSE IF is_hrule(d) THEN "hrule"
    ELSE IF prefix_dli(w.doc, d) # 0 /\ CanDefine(w) THEN "definition"
    ELSE IF prefix_oli(w.doc, d) # 0 THEN "oli"
    ELSE "paragraph"

\* the chain of tests of parse_block on the bytes d at its offset, in the
\* world w: the branch taken
block_kind(w, d) ==
    IF is_atxheader(w.doc, d) THEN "atxheader"
    ELSE IF d # <<>> /\ B(d, 0) = "<" /\ parse_htmlblock(d) # 0
    THEN "htmlblock"
    ELSE IF is_empty(d) # 0 THEN "empty"
    ELSE IF is_hrule(d) THEN "hrule"
    ELSE IF "FENCED" \in w.doc.ext_flags /\ fencedcode_scan(d).f.i # 0
    THEN "fencedcode"
    ELSE IF "TABLES" \in w.doc.ext_flags /\ table_header_end(d) # 0
    THEN "table"
    ELSE IF prefix_quote(d) # 0 THEN "blockquote"
    ELSE IF "NOCODEIND" \notin w.doc.ext_flags /\ prefix_code(d) # 0
    THEN "blockcode"
    ELSE IF prefix_uli(d) # 0 THEN "uli"
    ELSE IF prefix_dli(w.doc, d) # 0 /\ CanDefine(w) THEN "definition"
    ELSE IF prefix_oli(w.doc, d) # 0 THEN "oli"
    ELSE "paragraph"

(***************************************************************************)
(* The block pass as a machine.  The stack holds what is still to be done, *)
(* the next thing last: a parse_block with its bytes and offset, a         *)
(* parse_inline with its bytes, a HEADER to make, the loop of parse_list   *)
(* or parse_definition, and the popnode that ends a block.  What a block   *)
(* parser returns depends on the bytes alone, so the offset of the         *)
(* parse_block that called it moves on when it is called.                  *)
(***************************************************************************)
\* parse_block(doc, d, size) with its offset at beg
BlockFrame(d, beg) == Frame("parse_block", NULL, "block", <<>>, <<d, beg>>)

\* parse_inline(doc, d, size)
SpanFrame(d) == Frame("parse_inline", NULL, "inline", <<>>, <<d>>)

\* a HEADER of the C variable level with the bytes d is to be made
HeaderFrame(level, d) == Frame("header", NULL, "ret", <<>>, <<level, d>>)

\* popnode(doc, n), then the buffers bufs are freed
PopFrame(n, bufs) == Frame("popnode", n, "ret", bufs, <<>>)

\* the loop of parse_list or parse_definition on the bytes d: the node n,
\* the work buffer, the offset i, the item number k, the flags, and
\* whether the loop has met its break
ListFrame(n, work, d, i, k, flags, done) ==
    Frame("parse_list", n, "ret", <<work>>, <<d, i, k, flags, done>>)

\* parse_block is at an offset inside its bytes
AtBlock ==
    /\ pc = "block" /\ stack # <<>>
    /\ Top.fn = "parse_block"
    /\ Top.aux[2] < Len(Top.aux[1])

\* txt_data: the bytes from the offset on
txt_data == From(Top.aux[1], Top.aux[2])

\* the stack once the parse_block on top has moved on by k bytes and the
\* frames fs are to be done first
Moved(k, fs) ==
    Append(Front(stack), [Top EXCEPT !.aux[2] = @ + k]) \o fs

\* the branch taken is recorded with the bytes it was taken on and the
\* number of nodes there were
Taken(kind) ==
    out' = Append(out, [kind |-> kind, at |-> txt_data, n |-> Len(tree)])

\* parse_atxheader up to its pushnode: the level, the bytes i..(end - 1) of
\* the header and what it returns (skip)
atxheader_scan(d) ==
    LET level == ScanPast(Take(d, IF Len(d) < 6 THEN Len(d) ELSE 6), 0, {"#"})
        i == countspaces(d, level, Len(d), 0)
        skip == ScanTo(d, i, {"\n"})
    IN [level |-> level, i |-> i, skip |-> skip,
        end |-> trim_byte(d, trim_byte(d, skip, "#"), " ")]

\* "n = pushnode(doc, LOWDOWN_HEADER); assert(level > 0);
\* n->rndr_header.level = level - 1" with one added to the level
header_node_level_kept(w, level) ==
    LET set(w1) == IF w1.err # "none" THEN w1
                   ELSE IF level <= 0 THEN [w1 EXCEPT !.err = "assert"]
                   ELSE [w1 EXCEPT !.tree[Cur(w1)].level = level]
    IN set(pushnode(w, "HEADER"))

\* "n = pushnode(doc, LOWDOWN_HEADER); assert(level > 0);
\* n->rndr_header.level = level - 1"
header_node(w, level) ==
    LET set(w1) == IF w1.err # "none" THEN w1
                   ELSE IF level <= 0 THEN [w1 EXCEPT !.err = "assert"]
                   ELSE [w1 EXCEPT !.tree[Cur(w1)].level = level - 1]
    IN set(pushnode(w, "HEADER"))

\* a node of type t with its fields lines, beoln, num and flags set
block_node(w, t, lines, beoln, num, flags) ==
    LET set(w1) == IF w1.err # "none" THEN w1
                   ELSE [w1 EXCEPT !.tree[Cur(w1)].lines = lines,
                                   !.tree[Cur(w1)].beoln = beoln,
                                   !.tree[Cur(w1)].num = num,
                                   !.tree[Cur(w1)].flags = flags]
    IN set(pushnode(w, t))

\* a BLOCKCODE node with the bytes text and a lang of langsz bytes
blockcode_node(w, text, lang_bytes, has_lang) ==
    LET named(w1, n) ==
            IF w1.err # "none" THEN w1
            ELSE [w1 EXCEPT !.tree[n].lang = lang_bytes]
        lang(w1) == IF has_lang
                    THEN named(pushbuffer(w1, Cur(w1), "lang",
                                          Len(lang_bytes)), Cur(w1))
                    ELSE w1
        fill(w1) ==
            popnode(lang(SetStr(pushbuffer(w1, Cur(w1), "text", Len(text)),
                                Cur(w1), text)),
                    Cur(w1))
    IN fill(pushnode(w, "BLOCKCODE"))

\* parse_block meets a "#" header: parse_atxheader
BlockAtxHeader ==
    /\ AtBlock
    /\ block_kind(World, txt_data) = "atxheader"
    /\ \E s \in {atxheader_scan(txt_data)} :
          Commit(World,
                 Moved(s.skip,
                       IF s.end > s.i
                       THEN << HeaderFrame(s.level,
                                   SubSeq(txt_data, s.i + 1, s.end)) >>
                       ELSE <<>>),
                 "block")
    /\ Taken("atxheader")
    /\ UNCHANGED <<ret, ncalls, input, data>>

\* a HEADER is made; its bytes are parsed inline next, then it is popped
BlockHeader ==
    /\ pc = "block" /\ stack # <<>>
    /\ Top.fn = "header"
    /\ \E w \in {header_node(World, Top.aux[1])} :
          Commit(w, Front(stack)
                    \o << PopFrame(Cur(w), <<>>), SpanFrame(Top.aux[2]) >>,
                 "block")
    /\ UNCHANGED <<ret, ncalls, input, data, out>>

\* parse_inline on the bytes of a block
BlockInline ==
    /\ pc = "block" /\ stack # <<>>
    /\ Top.fn = "parse_inline"
    /\ Commit(parse_inline(World, Top.aux[1]), Front(stack), "block")
    /\ UNCHANGED <<ret, ncalls, input, data, out>>

\* the popnode that ends a block, and the hbuf_free of its work buffer
BlockPopnode ==
    /\ pc = "block" /\ stack # <<>>
    /\ Top.fn = "popnode"
    /\ Commit(hbuf_free_all(popnode(World, Top.n), Top.bufs), Front(stack),
              "block")
    /\ UNCHANGED <<ret, ncalls, input, data, out>>

\* parse_block meets a blank line
BlockEmpty ==
    /\ AtBlock
    /\ block_kind(World, txt_data) = "empty"
    /\ Commit(World, Moved(is_empty(txt_data), <<>>), "block")
    /\ Taken("empty")
    /\ UNCHANGED <<ret, ncalls, input, data>>

\* parse_block meets a "<" that parse_htmlblock makes a block of
BlockHtml ==
    /\ AtBlock
    /\ block_kind(World, txt_data) = "htmlblock"
    /\ \E k \in {parse_htmlblock(txt_data)} :
          IF k > Len(txt_data)
          THEN Commit([World EXCEPT !.err = "overread"], stack, "block")
          ELSE Commit(leaf_node(World, "BLOCKHTML", "text", Take(txt_data, k)),
                      Moved(k, <<>>), "block")
    /\ Taken("htmlblock")
    /\ UNCHANGED <<ret, ncalls, input, data>>

\* parse_block meets a horizontal rule
BlockHrule ==
    /\ AtBlock
    /\ block_kind(World, txt_data) = "hrule"
    /\ \E w \in {pushnode(World, "HRULE")} :
          Commit(popnode(w, Cur(w)),
                 Moved(ScanTo(txt_data, 0, {"\n"}) + 1, <<>>), "block")
    /\ Taken("hrule")
    /\ UNCHANGED <<ret, ncalls, input, data>>

\* parse_block meets a code fence: parse_fencedcode.  Without a closing
\* fence the text runs to line_start, which is past the bytes when the last
\* line has no newline.
BlockFencedCode ==
    /\ AtBlock
    /\ block_kind(World, txt_data) = "fencedcode"
    /\ \E s \in {fencedcode_scan(txt_data)} :
          IF s.close.line_start > Len(txt_data)
          THEN Commit([World EXCEPT !.err = "overread"], stack, "block")
          ELSE Commit(blockcode_node(World,
                          SubSeq(txt_data, s.text_start + 1,
                                 s.close.line_start),
                          s.lang, TRUE),
                      Moved(s.close.i, <<>>), "block")
    /\ Taken("fencedcode")
    /\ UNCHANGED <<ret, ncalls, input, data>>

\* parse_block meets a ">": parse_blockquote
BlockQuote ==
    /\ AtBlock
    /\ block_kind(World, txt_data) = "blockquote"
    /\ \E s \in {blockquote_scan(txt_data, 0, <<>>)} :
       \E w \in {pushnode(World, "BLOCKQUOTE")} :
          Commit(w, Moved(s.end, << PopFrame(Cur(w), <<>>),
                                    BlockFrame(s.work, 0) >>),
                 "block")
    /\ Taken("blockquote")
    /\ UNCHANGED <<ret, ncalls, input, data>>

\* parse_block meets four spaces: parse_blockcode
BlockCode ==
    /\ AtBlock
    /\ block_kind(World, txt_data) = "blockcode"
    /\ \E s \in {blockcode_scan(txt_data, 0, <<>>)} :
       \E w \in {hbuf_new(World)} :                         \* work
          Commit(hbuf_free(blockcode_node(w, one_newline(s.work), <<>>, FALSE),
                           w.b),
                 Moved(s.beg, <<>>), "block")
    /\ Taken("blockcode")
    /\ UNCHANGED <<ret, ncalls, input, data>>

\* the frames of a paragraph whose PARAGRAPH node, if any, is n: its bytes
\* are parsed inline and it is popped, then the HEADER, if any, is made
paragraph_frames(p, n) ==
    (IF p.level # 0 THEN << HeaderFrame(p.level, p.header[1]) >> ELSE <<>>)
    \o (IF p.par # <<>> THEN << PopFrame(n, <<>>), SpanFrame(p.par[1]) >>
        ELSE <<>>)

\* parse_block meets nothing else: parse_paragraph
BlockParagraph ==
    /\ AtBlock
    /\ block_kind(World, txt_data) = "paragraph"
    /\ \E s \in {paragraph_scan(doc, txt_data, 0, 0)} :
       \E p \in {paragraph_parts(txt_data, s)} :
       \E w \in {IF p.par # <<>>
                 THEN block_node(World, "PARAGRAPH", p.lines, p.beoln, 0, {})
                 ELSE World} :
          Commit(w, Moved(s.end, paragraph_frames(p, Cur(w))), "block")
    /\ Taken("paragraph")
    /\ UNCHANGED <<ret, ncalls, input, data>>

\* parse_list up to its loop, for a list of the type in flags
list_begin(flags) ==
    \E w0 \in {hbuf_new(World)} :                           \* work
    \E w \in {block_node(w0, "LIST", 0, 0, 0, flags)} :
       Commit(w, Moved(0, << ListFrame(Cur(w), w0.b, txt_data, 0, 1, flags,
                                       FALSE) >>),
              "block")

\* parse_block meets the prefix of an unordered list item: parse_list
BlockUli ==
    /\ AtBlock
    /\ block_kind(World, txt_data) = "uli"
    /\ list_begin({"UNORDERED"})
    /\ Taken("uli")
    /\ UNCHANGED <<ret, ncalls, input, data>>

\* parse_block meets the prefix of an ordered list item: parse_list; the
\* number copied to oli_data is empty without COMMONMARK, so k starts at 1
BlockOli ==
    /\ AtBlock
    /\ block_kind(World, txt_data) = "oli"
    /\ list_begin({"ORDERED"})
    /\ Taken("oli")
    /\ UNCHANGED <<ret, ncalls, input, data>>

\* the flags parse_definition starts with in world w: block mode when the
\* paragraph before ended on a blank line, and the flags of the DEFINITION
\* it merges into
definition_flags(w) ==
    LET cs == w.tree[w.doc.current].children
        prev == IF Len(cs) > 1 THEN cs[Len(cs) - 1] ELSE NULL
    IN {"DEF"}
       \cup (IF w.tree[Last(cs)].beoln = 1 THEN {"BLOCK"} ELSE {})
       \cup (IF prev # NULL /\ w.tree[prev].type = "DEFINITION"
             THEN w.tree[prev].flags ELSE {})

\* "n->rndr_definition.flags = flags" for a DEFINITION that was pushed
definition_node(w, pushed, flags) ==
    IF w.err # "none" \/ ~pushed THEN w
    ELSE [w EXCEPT !.tree[Cur(w)].flags = flags]

\* parse_block meets the prefix of a definition after a paragraph of one
\* line: parse_definition
BlockDli ==
    /\ AtBlock
    /\ block_kind(World, txt_data) = "definition"
    /\ \E flags \in {definition_flags(World)} :
       \E w \in {definition_node(parse_definition(World),
                                 Len(parse_definition(World).tree)
                                    > Len(tree),
                                 flags)} :
          Commit(w, Moved(0, << ListFrame(Cur(w), hbuf_new(World).b,
                                          txt_data, 0, 1, flags, FALSE) >>),
                 "block")
    /\ Taken("definition")
    /\ UNCHANGED <<ret, ncalls, input, data>>

\* what parse_listitem parses the bytes in work as, from the result s of
\* its loop: inline or as blocks, in two parts when a sublist starts in it
listitem_frames(s) ==
    LET split == s.sublist # 0 /\ s.sublist < Len(s.work)
        first == IF split THEN Take(s.work, s.sublist) ELSE s.work
    IN (IF split THEN << BlockFrame(From(s.work, s.sublist), 0) >>
        ELSE <<>>)
       \o (IF "BLOCK" \in s.flags THEN << BlockFrame(first, 0) >>
           ELSE << SpanFrame(first) >>)

\* "n->rndr_listitem.flags = *flags; n->rndr_listitem.num = num"
listitem_node(w, num, flags) ==
    IF w.err # "none" THEN w
    ELSE [w EXCEPT !.tree[Cur(w)].num = num, !.tree[Cur(w)].flags = flags]

\* one iteration of the loop of parse_list or parse_definition:
\* parse_listitem up to the parsing of the item's bytes; it returns 0 and
\* makes no node when the bytes start with no prefix
BlockListitem ==
    /\ pc = "block" /\ stack # <<>>
    /\ Top.fn = "parse_list"
    /\ ~Top.aux[5] /\ Top.aux[2] < Len(Top.aux[1])
    /\ \E w1 \in {IF "DEF" \in Top.aux[4]
                  THEN pushnode(World, "DEFINITION_DATA") ELSE World} :
       \E pops \in {IF "DEF" \in Top.aux[4]
                    THEN << PopFrame(Cur(w1), <<>>) >> ELSE <<>>} :
       \E s \in {listitem_scan(doc, From(Top.aux[1], Top.aux[2]),
                               Top.aux[4])} :
          IF s.beg = 0
          THEN Commit(w1,
                      Append(Front(stack), [Top EXCEPT !.aux[5] = TRUE])
                      \o pops, "block")
          ELSE Commit(listitem_node(parse_listitem(w1), Top.aux[3], s.flags),
                      Append(Front(stack),
                             [Top EXCEPT
                                !.aux[2] = @ + s.beg, !.aux[3] = @ + 1,
                                !.aux[4] = s.flags,
                                !.aux[5] = "LI_END" \in s.flags])
                      \o pops
                      \o << PopFrame(Cur(parse_listitem(w1)),
                                     <<hbuf_new(w1).b>>) >>
                      \o listitem_frames(s),
                      "block")
    /\ UNCHANGED <<ret, ncalls, input, data, out>>

\* "if (flags & HLIST_FL_BLOCK) n->rndr_list.flags |= HLIST_FL_BLOCK"
list_block_flag(w, n, flags) ==
    IF w.err # "none" \/ "BLOCK" \notin flags THEN w
    ELSE [w EXCEPT !.tree[n].flags = @ \cup {"BLOCK"}]

\* the loop of parse_list or parse_definition is over: the node is popped,
\* work is freed, and the parse_block that called moves on by i
BlockListEnd ==
    /\ pc = "block" /\ stack # <<>>
    /\ Top.fn = "parse_list"
    /\ Top.aux[5] \/ Top.aux[2] >= Len(Top.aux[1])
    /\ Commit(hbuf_free(popnode(list_block_flag(World, Top.n, Top.aux[4]),
                                Top.n),
                        Top.bufs[1]),
              Append(Front(Front(stack)),
                     [stack[Len(stack) - 1] EXCEPT !.aux[2] = @ + Top.aux[2]]),
              "block")
    /\ UNCHANGED <<ret, ncalls, input, data, out>>

\* parse_block has reached the end of its bytes and returns
BlockReturn ==
    /\ pc = "block" /\ stack # <<>>
    /\ Top.fn = "parse_block"
    /\ Top.aux[2] >= Len(Top.aux[1])
    /\ Commit(World, Front(stack),
              IF Len(stack) = 1 THEN "block_done" ELSE "block")
    /\ UNCHANGED <<ret, ncalls, input, data, out>>

\* the frame of a parse_table called by parse_block on the bytes d; ctx
\* tells whether it is inside parse_table_row or between two rows
BlockTableFrame(f, ctx, d) == [f EXCEPT !.ctx = ctx, !.aux = Append(@, d)]

\* parse_block meets the two lines of a table header: parse_table up to the
\* loops of the first parse_table_row
BlockTable ==
    /\ AtBlock
    /\ block_kind(World, txt_data) = "table"
    /\ \E w0 \in {hbuf_new(World)} :                        \* header_work
       \E w1 \in {hbuf_new(w0)} :                           \* body_work
       \E r \in {parse_table_header(w1, txt_data)} :
          Commit(pushnode(r.w, "TABLE_ROW"),
                 Moved(0, << BlockTableFrame(
                     TableFrame(r.n, <<w0.b, w1.b, r.col_data>>,
                                r.i, r.columns, 0, r.header_end,
                                table_row_start(Take(txt_data, r.header_end)),
                                0, 1),
                     "table_row", txt_data) >>),
                 "block")
    /\ Taken("table")
    /\ UNCHANGED <<ret, ncalls, input, data>>

\* one iteration of the loops of parse_table_row up to the parsing of the
\* cell's bytes: the TABLE_CELL is pushed and its bytes are found
BlockTableCell ==
    /\ pc = "block" /\ stack # <<>>
    /\ Top.fn = "parse_table" /\ Top.ctx = "table_row"
    /\ Top.aux[6] < Top.aux[2]
    /\ \E d \in {SubSeq(Top.aux[8], Top.aux[3] + 1, Top.aux[4])} :
       \E cell_start \in {ScanPast(d, Top.aux[5], {" ", "\n"})} :
       \E len \in {cell_len(d, cell_start)} :
       \E w \in {table_cell_fields(pushnode(World, "TABLE_CELL"),
                                   Top.aux[6], Top.aux[2])} :
          Commit(w,
                 Append(Front(stack),
                        [Top EXCEPT
                           !.aux[5] = IF @ < Len(d) THEN cell_start + len + 1
                                      ELSE @,
                           !.aux[6] = @ + 1])
                 \o << PopFrame(Cur(w), <<>>),
                       SpanFrame(IF Top.aux[5] < Len(d)
                                 THEN cell_bytes(d, cell_start, len)
                                 ELSE <<>>) >>,
                 "block")
    /\ UNCHANGED <<ret, ncalls, input, data, out>>

\* the end of parse_table_row; after the header row parse_table_header
\* pops TABLE_HEADER and returns, and parse_table pushes TABLE_BODY
BlockTableRowEnd ==
    /\ pc = "block" /\ stack # <<>>
    /\ Top.fn = "parse_table" /\ Top.ctx = "table_row"
    /\ Top.aux[6] >= Top.aux[2]
    /\ \E w1 \in {popnode(World, Cur(World))} :
          Commit(IF Top.aux[7] = 1
                 THEN pushnode(popnode(w1, Cur(w1)), "TABLE_BODY") ELSE w1,
                 Append(Front(stack),
                        [Top EXCEPT !.ctx = "table_body", !.aux[7] = 0]),
                 "block")
    /\ UNCHANGED <<ret, ncalls, input, data, out>>

\* one iteration of the loop of parse_table: parse_table_row is called on
\* the line at i and pushes its TABLE_ROW
BlockTableRow ==
    /\ pc = "block" /\ stack # <<>>
    /\ Top.fn = "parse_table" /\ Top.ctx = "table_body"
    /\ TableRowAt(Top.aux[8], Top.aux[1])
    /\ \E i \in {Top.aux[1]} :
       \E eol \in {ScanTo(Top.aux[8], i, {"\n"})} :
          Commit(pushnode(World, "TABLE_ROW"),
                 Append(Front(stack),
                        [Top EXCEPT
                           !.ctx = "table_row",
                           !.aux[1] = eol + 1, !.aux[3] = i, !.aux[4] = eol,
                           !.aux[5] = table_row_start(
                                          SubSeq(Top.aux[8], i + 1, eol)),
                           !.aux[6] = 0]),
                 "block")
    /\ UNCHANGED <<ret, ncalls, input, data, out>>

\* the loop of parse_table ends: TABLE_BODY and TABLE_BLOCK are popped,
\* col_data and the work buffers are freed, and the parse_block that
\* called moves on by i
BlockTableEnd ==
    /\ pc = "block" /\ stack # <<>>
    /\ Top.fn = "parse_table" /\ Top.ctx = "table_body"
    /\ ~TableRowAt(Top.aux[8], Top.aux[1])
    /\ Commit(hbuf_free(hbuf_free(hbuf_free(
                  popnode(popnode(World, Cur(World)), Top.n),
                  Top.bufs[3]), Top.bufs[1]), Top.bufs[2]),
              Append(Front(Front(stack)),
                     [stack[Len(stack) - 1] EXCEPT !.aux[2] = @ + Top.aux[1]]),
              "block")
    /\ UNCHANGED <<ret, ncalls, input, data, out>>

\* the lines the texts of the block pass are made of
BlockLines ==
    { <<>>, <<"a">>, <<"#", " ", "a">>,
      <<"#", "#", "#", "#", "#", "#", "#", "a", "#">>,
      <<"=">>, <<"-">>, <<"-", " ", "-", " ", "-">>, <<"-", " ", "a">>,
      <<">", " ", "a">>, <<" ", " ", " ", " ", "a">>,
      <<"1", ".", " ", "a">>, <<":", " ", "a">>, <<"~", "~", "~">>,
      <<"a", "|", "a">>, <<"-", "-", "-", "|", "-", "-", "-">> }

\* the most lines a text has
MaxLines == 3

\* the texts: at most MaxLines lines, each ended by a newline
BlockTexts ==
    { JoinLines(ls) : ls \in UNION { [1..k -> BlockLines] : k \in 0..MaxLines } }

\* the feature sets the block pass runs with
BlockFeatures == { {"FENCED", "TABLES", "DEFLIST"}, {"NOCODEIND"} }

InitBlock ==
    /\ \E feat \in BlockFeatures :
          \E w \in {BlockStart(feat)} :
             /\ doc = w.doc
             /\ opts = w.opts
             /\ tree = w.tree
             /\ heap = w.heap
    /\ data \in BlockTexts
    /\ stack = << BlockFrame(data, 0) >>
    /\ pc = "block"
    /\ ret = [root |-> NULL, maxn |-> 0]
    /\ ncalls = 1
    /\ input = [of |-> {}, more |-> 0]
    /\ out = <<>>

NextBlock ==
    \/ BlockAtxHeader
    \/ BlockEmpty
    \/ BlockHrule
    \/ BlockFencedCode
    \/ BlockTable
    \/ BlockTableCell
    \/ BlockTableRowEnd
    \/ BlockTableRow
    \/ BlockTableEnd
    \/ BlockQuote
    \/ BlockCode
    \/ BlockUli
    \/ BlockDli
    \/ BlockOli
    \/ BlockListitem
    \/ BlockListEnd
    \/ BlockParagraph
    \/ BlockHeader
    \/ BlockInline
    \/ BlockPopnode
    \/ BlockReturn

SpecBlock == InitBlock /\ [][NextBlock]_vars

(***************************************************************************)
(* Link references: the first pass of lowdown_doc_parse takes the lines    *)
(* that define a reference out of the input, and the second pass parses    *)
(* what is left.  The inputs hold no tab and no carriage return.           *)
(***************************************************************************)
\* expand_tabs with the continuation bytes counted as columns
RECURSIVE expand_tabs_every_byte(_, _, _)
expand_tabs_every_byte(line, i, tab) ==
    IF i >= Len(line) THEN <<>>
    ELSE IF B(line, i) # "\t"
    THEN <<B(line, i)>> \o expand_tabs_every_byte(line, i + 1, tab + 1)
    ELSE [k \in 1..(4 - (tab % 4)) |-> " "]
         \o expand_tabs_every_byte(line, i + 1, tab + (4 - (tab % 4)))

\* expand_tabs(ob, line, size) from index i on with the column at tab: the
\* bytes put to ob.  "cont" is a byte whose top two bits are 10.
RECURSIVE expand_tabs(_, _, _)
expand_tabs(line, i, tab) ==
    IF i >= Len(line) THEN <<>>
    ELSE IF B(line, i) # "\t"
    THEN <<B(line, i)>>
         \o expand_tabs(line, i + 1,
                        IF B(line, i) # "cont" THEN tab + 1 ELSE tab)
    ELSE [k \in 1..(4 - (tab % 4)) |-> " "]
         \o expand_tabs(line, i + 1, tab + (4 - (tab % 4)))

\* is_ref(doc, data, beg, end, &last) with end the size of data: whether
\* the line at beg defines a reference, the reference, and last
is_ref(d, beg) ==
    LET end == Len(d)
        no == [ok |-> FALSE, last |-> 0, name |-> <<>>, link |-> <<>>,
               title |-> <<>>]
        made(id_offset, id_end, link_offset, link_e, title_offset,
             title_end, line_e) ==
            IF line_e = 0 \/ link_e = link_offset THEN no
            ELSE [ok |-> TRUE, last |-> line_e,
                  name |-> SubSeq(d, id_offset + 1, id_end),
                  link |-> SubSeq(d, link_offset + 1, link_e),
                  title |-> IF title_end > title_offset
                            THEN SubSeq(d, title_offset + 1, title_end)
                            ELSE <<>>]
        title(id_offset, id_end, link_offset, link_e, line_e, i) ==
            IF i + 1 < end /\ B(d, i) \in {"'", "\"", "("}
            THEN LET eol == ScanTo(d, i + 1, {"\n"})
                     RECURSIVE back(_)
                     back(j) == IF j > i + 1 /\ B(d, j) = " "
                                THEN back(j - 1) ELSE j
                     j == back(eol - 1)
                 IN IF j > i + 1 /\ B(d, j) \in {"'", "\"", ")"}
                    THEN made(id_offset, id_end, link_offset, link_e,
                              i + 1, j, eol)
                    ELSE made(id_offset, id_end, link_offset, link_e,
                              i + 1, eol, line_e)
            ELSE made(id_offset, id_end, link_offset, link_e, 0, 0,
                      line_e)
        spacer(id_offset, id_end, link_offset, link_e, i) ==
            IF i < end /\ B(d, i) \notin {"\n", "'", "\"", "("} THEN no
            ELSE IF i >= end \/ B(d, i) = "\n"
            THEN title(id_offset, id_end, link_offset, link_e, i,
                       countspaces(d, i + 1, end, 0))
            ELSE title(id_offset, id_end, link_offset, link_e, 0, i)
        link(id_offset, id_end, link_offset) ==
            LET i == ScanTo(d, link_offset, {" ", "\n"})
            IN spacer(id_offset, id_end, link_offset,
                      IF B(d, i - 1) = ">" THEN i - 1 ELSE i,
                      countspaces(d, i, end, 0))
        target(id_offset, id_end, i) ==
            IF i >= end THEN no
            ELSE link(id_offset, id_end, IF B(d, i) = "<" THEN i + 1 ELSE i)
        colon(id_offset, id_end, i) ==
            target(id_offset, id_end,
                   countspaces(d, IF i < end /\ B(d, i) = "\n"
                                  THEN i + 1 ELSE i, end, 0))
        id(id_offset, id_end) ==
            IF id_end >= end \/ B(d, id_end) # "]" THEN no
            ELSE IF id_end + 1 >= end \/ B(d, id_end + 1) # ":" THEN no
            ELSE colon(id_offset, id_end, countspaces(d, id_end + 2, end, 0))
        bracket(i) ==
            IF B(d, i) # "[" THEN no
            ELSE id(i + 1, ScanTo(d, i + 1, {"\n", "]"}))
    IN IF beg + 3 >= end THEN no ELSE bracket(countspaces(d, beg, end, 3))

\* the index after the newline at i, if there is one
skip_newline(d, i) ==
    IF i < Len(d) /\ B(d, i) \in {"\n", "\r"}
    THEN IF i + 1 < Len(d) /\ B(d, i + 1) = "\n" /\ B(d, i) = "\r"
         THEN i + 2 ELSE i + 1
    ELSE i

\* a loop over the lines of a footnote that joins a line only when it is
\* indented by four spaces
RECURSIVE footnote_lines_four(_, _, _, _, _)
footnote_lines_four(d, id_end, start, in_empty, contents) ==
    LET end == Len(d)
        i == ScanTo(d, start, {"\n", "\r"})
        ind == countspaces(d, start, end, 4) - start
    IN IF start >= end THEN [start |-> start, contents |-> contents]
       ELSE IF is_empty(SubSeq(d, start + 1, i)) # 0
       THEN footnote_lines_four(d, id_end, skip_newline(d, i), TRUE, contents)
       ELSE IF ind < 4 /\ ~(start = id_end + 2 /\ B(d, start) = "\t")
                /\ start # id_end + 2
       THEN [start |-> start, contents |-> contents]
       ELSE footnote_lines_four(d, id_end, skip_newline(d, i), FALSE,
                contents
                \o (IF ind # 0 /\ in_empty THEN <<"\n">> ELSE <<>>)
                \o SubSeq(d, start + ind + 1, i)
                \o (IF i < end THEN <<"\n">> ELSE <<>>))

\* the loop of is_footnote over the lines of the definition, the next line
\* being at start: where it stops and the contents
RECURSIVE footnote_lines(_, _, _, _, _)
footnote_lines(d, id_end, start, in_empty, contents) ==
    LET end == Len(d)
        i == ScanTo(d, start, {"\n", "\r"})
        ind == countspaces(d, start, end, 4) - start
    IN IF start >= end THEN [start |-> start, contents |-> contents]
       ELSE IF is_empty(SubSeq(d, start + 1, i)) # 0
       THEN footnote_lines(d, id_end, skip_newline(d, i), TRUE, contents)
       ELSE IF ind = 0 /\ ~(start = id_end + 2 /\ B(d, start) = "\t")
       THEN [start |-> start, contents |-> contents]
       ELSE footnote_lines(d, id_end, skip_newline(d, i), FALSE,
                contents
                \o (IF ind # 0 /\ in_empty THEN <<"\n">> ELSE <<>>)
                \o SubSeq(d, start + ind + 1, i)
                \o (IF i < end THEN <<"\n">> ELSE <<>>))

\* is_footnote(doc, data, beg, end, &last) with end the size of data:
\* whether the line at beg defines a footnote, its name, its contents, and
\* last
is_footnote_scan(d, beg) ==
    LET end == Len(d)
        no == [ok |-> FALSE, last |-> 0, name |-> <<>>, text |-> <<>>]
        i0 == countspaces(d, beg, end, 3)
        id_offset == i0 + 2
        id_end == ScanTo(d, id_offset, {"\n", "\r", "]"})
        made(ls) == [ok |-> TRUE, last |-> ls.start,
                     name |-> SubSeq(d, id_offset + 1, id_end),
                     text |-> ls.contents]
    IN IF beg + 3 >= end THEN no
       ELSE IF B(d, i0) # "[" THEN no
       ELSE IF i0 + 1 >= end \/ B(d, i0 + 1) # "^" THEN no
       ELSE IF id_end >= end \/ B(d, id_end) # "]" THEN no
       ELSE IF id_end + 1 >= end \/ B(d, id_end + 1) # ":" THEN no
       ELSE made(footnote_lines(d, id_end, id_end + 2, FALSE, <<>>))

\* the footnote_ref that is_footnote puts at the tail of doc->footnotes
footnote_ref(w, f) ==
    LET ref(w1, w2, w3) ==
            [w3 EXCEPT !.doc.footnotes =
                Append(@, [name |-> f.name, is_used |-> 0, num |-> 0,
                           contents |-> w1.b, ref |-> w2.b,
                           nameb |-> IF f.name # <<>> THEN w3.b ELSE NULL,
                           text |-> f.text])]
        named(w1, w2) ==
            ref(w1, w2, IF f.name # <<>> THEN hbuf_new(w2) ELSE w2)
        alloc(w1) == named(w1, hbuf_new(w1))               \* ref = xcalloc
    IN alloc(hbuf_new(w))                                  \* contents

\* lowdown_doc_parse up to the first pass on an input without metadata
RefStart ==
    doc_parse_begin(
        [doc |-> lowdown_doc_new([feat |-> {}, maxdepth |-> 0]),
         opts |-> [meta |-> <<>>, metaovr |-> <<>>],
         tree |-> <<>>, heap |-> {}, err |-> "none", b |-> NULL],
        <<>>)

\* the locals beg and text of lowdown_doc_parse in its first pass
RefFrame(n, beg, text) ==
    Frame("lowdown_doc_parse", n, "first_pass", <<>>, <<beg, text>>)

\* one iteration of the loop of the first pass: with FOOTNOTES, the lines
\* of a footnote definition are added to footnotes; a line that defines a
\* reference is added to refq; any other line is copied to text with one
\* newline for each that follows it
RefLine ==
    /\ pc = "first_pass"
    /\ Top.aux[1] < Len(data)
    /\ \E beg \in {Top.aux[1]} :
       \E f \in {IF "FOOTNOTES" \in doc.ext_flags
                 THEN is_footnote_scan(data, beg)
                 ELSE [ok |-> FALSE]} :
       \E r \in {is_ref(data, beg)} :
       \E end \in {ScanTo(data, beg, {"\n"})} :
          IF f.ok
          THEN Commit(footnote_ref(World, f),
                      << RefFrame(Top.n, f.last, Top.aux[2]) >>,
                      "first_pass")
          ELSE IF r.ok
          THEN Commit([World EXCEPT
                         !.doc.refq = Append(@, [name |-> r.name,
                                                 link |-> r.link,
                                                 title |-> r.title])],
                      << RefFrame(Top.n, r.last, Top.aux[2]) >>,
                      "first_pass")
          ELSE Commit(World,
                      << RefFrame(Top.n, ScanPast(data, end, {"\n"}),
                                  Top.aux[2]
                                  \o expand_tabs(SubSeq(data, beg + 1, end),
                                                 0, 0)
                                  \o SubSeq(data, end + 1,
                                            ScanPast(data, end, {"\n"}))) >>,
                      "first_pass")
    /\ UNCHANGED <<ret, ncalls, input, data, out>>

\* the end of the first pass: DOC_HEADER is popped and parse_block is
\* called on text, which gets a last newline if it lacks one
RefPassEnd ==
    /\ pc = "first_pass"
    /\ Top.aux[1] >= Len(data)
    /\ \E text \in {Top.aux[2]} :
          Commit(popnode(World, Top.n),
                 IF text = <<>> THEN <<>>
                 ELSE << BlockFrame(IF Last(text) # "\n"
                                    THEN Append(text, "\n") ELSE text, 0) >>,
                 IF text = <<>> THEN "block_done" ELSE "block")
    /\ UNCHANGED <<ret, ncalls, input, data, out>>

\* the lines of the inputs: what defines a reference with a name, a link
\* (url is the link without its escapes) and a title, and what uses one in
\* the form named, followed by an "x"
RefItems ==
    { [def |-> TRUE, name |-> <<"a">>, link |-> <<"u">>, url |-> <<"u">>,
       title |-> <<>>],
      [def |-> TRUE, name |-> <<"a">>, link |-> <<"v">>, url |-> <<"v">>,
       title |-> <<"t">>],
      [def |-> TRUE, name |-> <<"b">>, link |-> <<"u", "\\", "v">>,
       url |-> <<"u", "v">>, title |-> <<>>],
      [def |-> TRUE, name |-> <<>>, link |-> <<"w">>, url |-> <<"w">>,
       title |-> <<"t">>],
      [def |-> FALSE, form |-> "shortcut", text |-> <<"a">>, id |-> <<>>],
      [def |-> FALSE, form |-> "shortcut", text |-> <<"b">>, id |-> <<>>],
      [def |-> FALSE, form |-> "collapsed", text |-> <<"a">>, id |-> <<>>],
      [def |-> FALSE, form |-> "collapsed", text |-> <<"c">>, id |-> <<>>],
      [def |-> FALSE, form |-> "reference", text |-> <<"c">>, id |-> <<"a">>],
      [def |-> FALSE, form |-> "reference", text |-> <<"a">>,
       id |-> <<"c">>] }

\* the bytes of a line
RefBytes(it) ==
    IF it.def
    THEN <<"[">> \o it.name \o <<"]", ":", " ">> \o it.link
         \o (IF it.title # <<>> THEN <<" ", "'">> \o it.title \o <<"'">>
             ELSE <<>>)
    ELSE <<"[">> \o it.text \o <<"]">>
         \o (IF it.form = "reference" THEN <<"[">> \o it.id \o <<"]">>
             ELSE IF it.form = "collapsed" THEN <<"[", "]">> ELSE <<>>)
         \o <<"x">>

\* the most lines an input has
MaxRefLines == 3

RECURSIVE RefText(_)
RefText(its) ==
    IF its = <<>> THEN <<>>
    ELSE RefBytes(Head(its)) \o <<"\n">> \o RefText(Tail(its))

InitRef ==
    /\ \E w \in {RefStart} :
          /\ doc = w.doc
          /\ opts = w.opts
          /\ tree = w.tree
          /\ heap = w.heap
          /\ stack = << RefFrame(Cur(w), 0, <<>>) >>
    /\ \E its \in UNION { [1..k -> RefItems] : k \in 0..MaxRefLines } :
          /\ input = its
          /\ data = RefText(its)
    /\ pc = "first_pass"
    /\ ret = [root |-> NULL, maxn |-> 0]
    /\ ncalls = 1
    /\ out = <<>>

NextRef ==
    \/ RefLine
    \/ RefPassEnd
    \/ BlockEmpty
    \/ BlockParagraph
    \/ BlockInline
    \/ BlockPopnode
    \/ BlockReturn

SpecRef == InitRef /\ [][NextRef]_vars

(***************************************************************************)
(* SpecTabs applies expand_tabs to one line, and to its own output.        *)
(***************************************************************************)
\* bytes in a line given to expand_tabs
MaxTab == 4

\* "cont" is a byte whose top two bits are 10
TabBytes == {"a", " ", "\t", "cont"}

TabLines == UNION { [1..k -> TabBytes] : k \in 0..MaxTab }

InitTabs ==
    /\ doc = lowdown_doc_new([maxdepth |-> 0, feat |-> {}])
    /\ opts = [meta |-> <<>>, metaovr |-> <<>>]
    /\ tree = <<>>
    /\ heap = {}
    /\ stack = <<>>
    /\ pc = "line"
    /\ ret = [root |-> NULL, maxn |-> 0]
    /\ ncalls = 0
    /\ input = <<>>
    /\ data \in TabLines
    /\ out = <<>>

\* expand_tabs(ob, line, size) on an empty ob
ExpandTabs ==
    /\ pc = "line"
    /\ out' = expand_tabs(data, 0, 0)
    /\ pc' = "expanded"
    /\ UNCHANGED <<doc, opts, tree, heap, stack, ret, ncalls, input, data>>

\* expand_tabs on what the first call put to ob
ExpandTabsAgain ==
    /\ pc = "expanded"
    /\ data' = out
    /\ out' = expand_tabs(out, 0, 0)
    /\ pc' = "again"
    /\ UNCHANGED <<doc, opts, tree, heap, stack, ret, ncalls, input>>

NextTabs ==
    \/ ExpandTabs
    \/ ExpandTabsAgain

SpecTabs == InitTabs /\ [][NextTabs]_vars

(***************************************************************************)
(* SpecFence: lowdown_doc_parse with FENCED on texts made of fence lines,  *)
(* text lines and lines shaped like a reference definition: the first pass *)
(* and then parse_block.                                                   *)
(***************************************************************************)
\* lines in a text
MaxFenceLines == 3

FenceLines ==
    { <<"~", "~", "~">>, <<"~", "~", "~", "~">>, <<"~", "~", "~", " ">>,
      <<"~", "~", "~", "c">>, <<Tick, Tick, Tick>>, <<"a">>,
      <<"[", "a", "]", ":", " ", "u">>, <<"[", "a", "]">>, <<>> }

FenceStart ==
    doc_parse_begin(
        [doc |-> lowdown_doc_new([feat |-> {"FENCED"}, maxdepth |-> 0]),
         opts |-> [meta |-> <<>>, metaovr |-> <<>>],
         tree |-> <<>>, heap |-> {}, err |-> "none", b |-> NULL],
        <<>>)

InitFence ==
    /\ \E w \in {FenceStart} :
          /\ doc = w.doc
          /\ opts = w.opts
          /\ tree = w.tree
          /\ heap = w.heap
          /\ stack = << RefFrame(Cur(w), 0, <<>>) >>
    /\ \E ls \in UNION { [1..k -> FenceLines] : k \in 0..MaxFenceLines } :
          /\ input = ls
          /\ data = JoinLines(ls)
    /\ pc = "first_pass"
    /\ ret = [root |-> NULL, maxn |-> 0]
    /\ ncalls = 1
    /\ out = <<>>

NextFence ==
    \/ RefLine
    \/ RefPassEnd
    \/ BlockEmpty
    \/ BlockFencedCode
    \/ BlockParagraph
    \/ BlockInline
    \/ BlockPopnode
    \/ BlockReturn

SpecFence == InitFence /\ [][NextFence]_vars

(***************************************************************************)
(* SpecFoot: lowdown_doc_parse with FOOTNOTES on texts made of footnote    *)
(* definitions and lines with zero to five spaces of indentation.          *)
(***************************************************************************)
\* lines in a text
MaxFootLines == 4

FootLines ==
    { <<"[", "^", "a", "]", ":", " ", "x">>, <<"b">>, <<" ", "b">>,
      <<" ", " ", " ", "b">>, <<" ", " ", " ", " ", "b">>,
      <<" ", " ", " ", " ", " ", "b">>, <<>> }

FootStart ==
    doc_parse_begin(
        [doc |-> lowdown_doc_new([feat |-> {"FOOTNOTES"}, maxdepth |-> 0]),
         opts |-> [meta |-> <<>>, metaovr |-> <<>>],
         tree |-> <<>>, heap |-> {}, err |-> "none", b |-> NULL],
        <<>>)

InitFoot ==
    /\ \E w \in {FootStart} :
          /\ doc = w.doc
          /\ opts = w.opts
          /\ tree = w.tree
          /\ heap = w.heap
          /\ stack = << RefFrame(Cur(w), 0, <<>>) >>
    /\ \E ls \in UNION { [1..k -> FootLines] : k \in 0..MaxFootLines } :
          /\ input = ls
          /\ data = JoinLines(ls)
    /\ pc = "first_pass"
    /\ ret = [root |-> NULL, maxn |-> 0]
    /\ ncalls = 1
    /\ out = <<>>

NextFoot ==
    \/ RefLine
    \/ RefPassEnd
    \/ BlockEmpty
    \/ BlockCode
    \/ BlockParagraph
    \/ BlockInline
    \/ BlockPopnode
    \/ BlockReturn

SpecFoot == InitFoot /\ [][NextFoot]_vars

(***************************************************************************)
(* HTML blocks: the block pass on lines that open and close tags.          *)
(***************************************************************************)
\* the most lines a text of tags has
MaxHtmlLines == 3

HtmlLines ==
    { <<"<", "b", ">">>,
      <<"<", "p", ">">>,
      <<"<", "P", ">">>,
      <<"<", ">">>,
      <<"<", "h", "r", ">">>,
      <<"<", "!", "-", "-", " ", "-", "-", ">">>,
      <<"<", "/", "p", ">">>,
      <<"<", "/", "b", "l", "o", "c", "k", "q", "u", "o", "t", "e", ">">>,
      <<"<", "/", "a", "d", "d", "r", "e", "s", "s", ">">>,
      <<"a">>,
      <<" ", "<", "/", "p", ">">>,
      <<>> }

InitHtml ==
    /\ \E w \in {BlockStart({})} :
          /\ doc = w.doc
          /\ opts = w.opts
          /\ tree = w.tree
          /\ heap = w.heap
    /\ \E ls \in UNION { [1..k -> HtmlLines] : k \in 0..MaxHtmlLines } :
          /\ input = ls
          /\ data = JoinLines(ls)
    /\ stack = << BlockFrame(data, 0) >>
    /\ pc = "block"
    /\ ret = [root |-> NULL, maxn |-> 0]
    /\ ncalls = 1
    /\ out = <<>>

NextHtml ==
    \/ BlockHtml
    \/ BlockEmpty
    \/ BlockParagraph
    \/ BlockInline
    \/ BlockPopnode
    \/ BlockReturn

SpecHtml == InitHtml /\ [][NextHtml]_vars

(***************************************************************************)
(* One handle parsing twice: documents that are a metadata block or        *)
(* nothing, on a handle with both command-line queues filled.              *)
(***************************************************************************)
\* the handle: the node budget leaves room for two documents
TwiceConfig ==
    [feat |-> {"METADATA"}, maxdepth |-> 0,
     meta |-> << [key |-> "title", value |-> "dflt"] >>,
     metaovr |-> << [key |-> "author", value |-> "ovr"] >>,
     input |-> [of |-> {"metadata"}, more |-> 2 * MaxNodes]]

InitTwice ==
    /\ doc = lowdown_doc_new(TwiceConfig)
    /\ opts = [meta |-> TwiceConfig.meta, metaovr |-> TwiceConfig.metaovr]
    /\ input = TwiceConfig.input
    /\ tree = <<>>
    /\ heap = {}
    /\ stack = <<>>
    /\ pc = "idle"
    /\ ret = [root |-> NULL, maxn |-> 0]
    /\ ncalls = 0
    /\ data = <<>>
    /\ out = <<>>

NextTwice ==
    \/ \E es \in MetaBlocks \cup {<<>>} : DocParse(es)
    \/ FirstPassEnd
    \/ BodyEnd
    \/ NodeFree

SpecTwice == InitTwice /\ [][NextTwice]_vars

(***************************************************************************)
(* The head of lowdown_doc_parse: the byte order mark and the test for a   *)
(* metadata block, on texts that end anywhere.  The reads of data are      *)
(* recorded in out.  size_t has SizeBits bits.                             *)
(***************************************************************************)
SizeBits == 5

\* a value as a size_t
size_t(x) == (x + 2 ^ SizeBits) % (2 ^ SizeBits)

UTF8_BOM == <<"EF", "BB", "BF">>

\* data[i] is read
read(i) == [kind |-> "read", at |-> i, n |-> 0]

\* what a read past the bytes may give
Indeterminate == {"a", "\n", ":"}

\* the loop of lowdown_doc_parse that looks for the blank line ending the
\* metadata block
RECURSIVE metadata_end(_, _)
metadata_end(d, end) ==
    IF end < Len(d) /\ ~(B(d, end) = "\n" /\ B(d, end - 1) = "\n")
    THEN metadata_end(d, end + 1)
    ELSE end

\* parse_metadata up to its loop over the pairs: whether it goes on, for
\* bytes d of which the last is read as c
metadata_begins(d, c) ==
    /\ d # <<>>
    /\ c = "\n"
    /\ ScanTo(d, 0, {"\n", ":"}) # Len(d)
    /\ B(d, ScanTo(d, 0, {"\n", ":"})) # "\n"

\* the most lines a text is cut from
MaxHeadLines == 2

HeadLines ==
    { <<"a">>,
      <<"[", "a", "]", ":", " ", "u">>,
      <<"[", "^", "a", "]", ":", " ", "x">>,
      <<>> }

\* the texts: a byte order mark or none, then lines cut off anywhere
HeadTexts ==
    UNION { { bom \o Take(JoinLines(ls), k) :
                bom \in {<<>>, UTF8_BOM}, k \in 0..Len(JoinLines(ls)) } :
            ls \in UNION { [1..j -> HeadLines] : j \in 0..MaxHeadLines } }

HeadFeatures == { {}, {"METADATA"}, {"FOOTNOTES"}, {"METADATA", "FOOTNOTES"} }

InitHead ==
    /\ \E feat \in HeadFeatures :
          doc = lowdown_doc_new([feat |-> feat, maxdepth |-> 0])
    /\ opts = [meta |-> <<>>, metaovr |-> <<>>]
    /\ tree = <<>>
    /\ heap = {}
    /\ stack = <<>>
    /\ data \in HeadTexts
    /\ input = <<>>
    /\ pc = "idle"
    /\ ret = [root |-> NULL, maxn |-> 0]
    /\ ncalls = 0
    /\ out = <<>>

\* lowdown_doc_parse up to its first pass.  The document is tested for
\* metadata when "beg < size - 1" holds of size_t values; a byte read past
\* the bytes has any value.  No text here has a colon in a first line that
\* starts with a letter, so parse_metadata, when called, returns 0 after
\* reading the last byte of its block.
DocHead ==
    /\ pc = "idle"
    /\ \E w \in {doc_parse_begin(World, <<>>)} :
       \E beg \in {IF Len(data) >= 3 /\ Take(data, 3) = UTF8_BOM
                   THEN 3 ELSE 0} :
       \E tested \in {/\ "METADATA" \in doc.ext_flags
                      /\ beg < size_t(Len(data) - 1)} :
       \E c \in IF ~tested THEN {"\n"}
                ELSE IF beg < Len(data) THEN {B(data, beg)}
                ELSE Indeterminate :
       \E end \in {metadata_end(data, beg + 1)} :
       \E last \in IF end - 1 < Len(data) THEN {B(data, end - 1)}
                   ELSE Indeterminate :
       \E block \in {IF end <= Len(data) THEN SubSeq(data, beg + 1, end)
                     ELSE <<last>>} :
          /\ Commit(w,
                    IF tested /\ isalnum(c) /\ metadata_begins(block, last)
                    THEN <<>>
                    ELSE << RefFrame(Cur(w), beg, <<>>) >>,
                    IF tested /\ isalnum(c) /\ metadata_begins(block, last)
                    THEN "metadata"
                    ELSE "first_pass")
          /\ out' = (IF Len(data) >= 3 THEN <<read(0), read(1), read(2)>>
                     ELSE <<>>)
                    \o (IF tested THEN <<read(beg)>> ELSE <<>>)
                    \o (IF tested /\ isalnum(c) THEN <<read(end - 1)>>
                        ELSE <<>>)
    /\ ncalls' = ncalls + 1
    /\ UNCHANGED <<ret, input, data>>

NextHead ==
    \/ DocHead
    \/ RefLine
    \/ RefPassEnd
    \/ BlockEmpty
    \/ BlockParagraph
    \/ BlockInline
    \/ BlockPopnode
    \/ BlockReturn

SpecHead == InitHead /\ [][NextHead]_vars

(***************************************************************************)
(* The options of main.  opts.feat and opts.oflags are sets of bits; the   *)
(* frame of main holds its locals aoflag, roflag, aiflag and riflag, which *)
(* getopt_long sets through the flag pointers of the table lo.  data holds *)
(* the arguments still to be read, input all of them.                      *)
(***************************************************************************)
\* strcasecmp(a, b) == 0
strcasecmp(a, b) ==
    /\ Len(a) = Len(b)
    /\ \A k \in 1..Len(a) : tolower(a[k]) = tolower(b[k])

\* feature_in: the bits of the name v, none when it is not known
feature_in(v) ==
    IF strcasecmp(v, <<"t", "a", "b", "l", "e", "s">>) THEN {"TABLES"}
    ELSE IF strcasecmp(v, <<"f", "e", "n", "c", "e", "d">>) THEN {"TABLES"}
    ELSE IF strcasecmp(v, <<"f", "o", "o", "t", "n", "o", "t", "e", "s">>) THEN {"FOOTNOTES"}
    ELSE IF strcasecmp(v, <<"a", "u", "t", "o", "l", "i", "n", "k">>) THEN {"AUTOLINK"}
    ELSE IF strcasecmp(v, <<"s", "t", "r", "i", "k", "e">>) THEN {"STRIKE"}
    ELSE IF strcasecmp(v, <<"h", "i", "l", "i", "t", "e">>) THEN {"HILITE"}
    ELSE IF strcasecmp(v, <<"s", "u", "p", "e", "r">>) THEN {"SUPER"}
    ELSE IF strcasecmp(v, <<"m", "a", "t", "h">>) THEN {"MATH"}
    ELSE IF strcasecmp(v, <<"n", "o", "i", "n", "t", "e", "m">>) THEN {"NOINTEM"}
    ELSE IF strcasecmp(v, <<"n", "o", "c", "o", "d", "e", "i", "n", "d">>) THEN {"NOCODEIND"}
    ELSE IF strcasecmp(v, <<"m", "e", "t", "a", "d", "a", "t", "a">>) THEN {"METADATA"}
    ELSE IF strcasecmp(v, <<"c", "o", "m", "m", "o", "n", "m", "a", "r", "k">>) THEN {"COMMONMARK"}
    ELSE {}

\* the long options of main that set a flag: the local getopt_long
\* assigns to and the value it assigns
lo ==
    << [name |-> "html-skiphtml", flag |-> "aoflag", val |-> "HTML_SKIP_HTML"],
       [name |-> "html-no-skiphtml", flag |-> "roflag", val |-> "HTML_SKIP_HTML"],
       [name |-> "html-escapehtml", flag |-> "aoflag", val |-> "HTML_ESCAPE"],
       [name |-> "html-no-escapehtml", flag |-> "roflag", val |-> "HTML_ESCAPE"],
       [name |-> "html-hardwrap", flag |-> "aoflag", val |-> "HTML_HARD_WRAP"],
       [name |-> "html-no-hardwrap", flag |-> "roflag", val |-> "HTML_HARD_WRAP"],
       [name |-> "html-head-ids", flag |-> "aoflag", val |-> "HTML_HEAD_IDS"],
       [name |-> "html-no-head-ids", flag |-> "roflag", val |-> "HTML_HEAD_IDS"],
       [name |-> "html-owasp", flag |-> "aoflag", val |-> "HTML_OWASP"],
       [name |-> "html-no-owasp", flag |-> "roflag", val |-> "HTML_OWASP"],
       [name |-> "html-num-ent", flag |-> "aoflag", val |-> "HTML_NUM_ENT"],
       [name |-> "html-no-num-ent", flag |-> "roflag", val |-> "HTML_NUM_ENT"],
       [name |-> "latex-numbered", flag |-> "aoflag", val |-> "LATEX_NUMBERED"],
       [name |-> "latex-no-numbered", flag |-> "roflag", val |-> "LATEX_NUMBERED"],
       [name |-> "latex-skiphtml", flag |-> "aoflag", val |-> "LATEX_SKIP_HTML"],
       [name |-> "latex-no-skiphtml", flag |-> "roflag", val |-> "LATEX_SKIP_HTML"],
       [name |-> "nroff-skiphtml", flag |-> "aoflag", val |-> "NROFF_SKIP_HTML"],
       [name |-> "nroff-no-skiphtml", flag |-> "roflag", val |-> "NROFF_SKIP_HTML"],
       [name |-> "nroff-hardwrap", flag |-> "aoflag", val |-> "NROFF_HARD_WRAP"],
       [name |-> "nroff-no-hardwrap", flag |-> "roflag", val |-> "NROFF_HARD_WRAP"],
       [name |-> "nroff-groff", flag |-> "aoflag", val |-> "NROFF_GROFF"],
       [name |-> "nroff-no-groff", flag |-> "roflag", val |-> "NROFF_GROFF"],
       [name |-> "nroff-numbered", flag |-> "aoflag", val |-> "NROFF_NUMBERED"],
       [name |-> "nroff-no-numbered", flag |-> "roflag", val |-> "NROFF_NUMBERED"],
       [name |-> "gemini-link-end", flag |-> "aoflag", val |-> "GEMINI_LINK_END"],
       [name |-> "gemini-no-link-end", flag |-> "roflag", val |-> "GEMINI_LINK_END"],
       [name |-> "gemini-link-inline", flag |-> "aoflag", val |-> "GEMINI_LINK_IN"],
       [name |-> "gemini-no-link-inline", flag |-> "roflag", val |-> "GEMINI_LINK_IN"],
       [name |-> "term-shortlinks", flag |-> "aoflag", val |-> "TERM_SHORTLINK"],
       [name |-> "term-no-shortlinks", flag |-> "roflag", val |-> "TERM_SHORTLINK"],
       [name |-> "out-smarty", flag |-> "aoflag", val |-> "SMARTY"],
       [name |-> "out-no-smarty", flag |-> "roflag", val |-> "SMARTY"],
       [name |-> "out-standalone", flag |-> "aoflag", val |-> "STANDALONE"],
       [name |-> "out-no-standalone", flag |-> "roflag", val |-> "STANDALONE"],
       [name |-> "parse-hilite", flag |-> "aiflag", val |-> "HILITE"],
       [name |-> "parse-no-hilite", flag |-> "riflag", val |-> "HILITE"],
       [name |-> "parse-tables", flag |-> "aiflag", val |-> "TABLES"],
       [name |-> "parse-no-tables", flag |-> "riflag", val |-> "TABLES"],
       [name |-> "parse-fenced", flag |-> "aiflag", val |-> "FENCED"],
       [name |-> "parse-no-fenced", flag |-> "riflag", val |-> "FENCED"],
       [name |-> "parse-footnotes", flag |-> "aiflag", val |-> "FOOTNOTES"],
       [name |-> "parse-no-footnotes", flag |-> "riflag", val |-> "FOOTNOTES"],
       [name |-> "parse-autolink", flag |-> "aiflag", val |-> "AUTOLINK"],
       [name |-> "parse-no-autolink", flag |-> "riflag", val |-> "AUTOLINK"],
       [name |-> "parse-strike", flag |-> "aiflag", val |-> "STRIKE"],
       [name |-> "parse-no-strike", flag |-> "riflag", val |-> "STRIKE"],
       [name |-> "parse-super", flag |-> "aiflag", val |-> "SUPER"],
       [name |-> "parse-no-super", flag |-> "riflag", val |-> "SUPER"],
       [name |-> "parse-math", flag |-> "aiflag", val |-> "MATH"],
       [name |-> "parse-no-math", flag |-> "riflag", val |-> "MATH"],
       [name |-> "parse-codeindent", flag |-> "riflag", val |-> "NOCODEIND"],
       [name |-> "parse-no-codeindent", flag |-> "aiflag", val |-> "NOCODEIND"],
       [name |-> "parse-intraemph", flag |-> "aiflag", val |-> "NOINTEM"],
       [name |-> "parse-no-intraemph", flag |-> "riflag", val |-> "NOINTEM"],
       [name |-> "parse-metadata", flag |-> "aiflag", val |-> "METADATA"],
       [name |-> "parse-no-metadata", flag |-> "riflag", val |-> "METADATA"],
       [name |-> "parse-cmark", flag |-> "aiflag", val |-> "COMMONMARK"],
       [name |-> "parse-no-cmark", flag |-> "riflag", val |-> "COMMONMARK"],
       [name |-> "parse-deflists", flag |-> "aiflag", val |-> "DEFLIST"],
       [name |-> "parse-no-deflists", flag |-> "riflag", val |-> "DEFLIST"],
       [name |-> "parse-img-ext", flag |-> "aiflag", val |-> "IMG_EXT"],
       [name |-> "parse-no-img-ext", flag |-> "riflag", val |-> "IMG_EXT"] >>

\* opts.feat and opts.oflags as main sets them before it reads its options
DefaultFeat ==
    {"FOOTNOTES", "AUTOLINK", "TABLES", "SUPER", "STRIKE", "FENCED",
     "COMMONMARK", "DEFLIST", "IMG_EXT", "METADATA"}

DefaultOflags ==
    {"HTML_ESCAPE", "HTML_HEAD_IDS", "HTML_NUM_ENT", "HTML_OWASP",
     "HTML_SKIP_HTML", "NROFF_GROFF", "NROFF_NUMBERED", "NROFF_SKIP_HTML",
     "LATEX_SKIP_HTML", "LATEX_NUMBERED", "SMARTY"}

\* main in its loop over the options, with its four flag locals
MainFrame(aoflag, roflag, aiflag, riflag) ==
    Frame("main", NULL, "getopt", <<>>,
          [aoflag |-> aoflag, roflag |-> roflag, aiflag |-> aiflag,
           riflag |-> riflag])

\* the most arguments on a command line
MaxArgs == 3

\* the arguments: long options of the table, and -d and -e with a name
LongArgs ==
    { [opt |-> "long", name |-> n] :
        n \in {"parse-tables", "parse-no-tables", "parse-fenced",
               "parse-no-fenced", "parse-math", "html-escapehtml",
               "html-no-escapehtml"} }

ShortArgs ==
    { [opt |-> o, name |-> n] :
        o \in {"d", "e"},
        n \in {<<"t", "a", "b", "l", "e", "s">>,
               <<"T", "A", "B", "L", "E", "S">>,
               <<"f", "e", "n", "c", "e", "d">>,
               <<"m", "a", "t", "h">>,
               <<"b", "o", "g", "u", "s">>} }

InitOpts ==
    /\ doc = NULL
    /\ opts = [meta |-> <<>>, metaovr |-> <<>>, feat |-> DefaultFeat,
               oflags |-> DefaultOflags]
    /\ tree = <<>>
    /\ heap = {}
    /\ stack = << MainFrame({}, {}, {}, {}) >>
    /\ input \in UNION { [1..k -> LongArgs] : k \in 0..MaxArgs }
                 \cup UNION { [1..k -> ShortArgs] : k \in 0..MaxArgs }
    /\ data = input
    /\ pc = "getopt"
    /\ ret = [root |-> NULL, maxn |-> 0]
    /\ ncalls = 0
    /\ out = <<>>

\* getopt_long returns 0 for a long option of the table, after it has
\* assigned the option's value to the option's flag local; case 0 of main
\* then applies the four locals
OptLong ==
    /\ pc = "getopt"
    /\ data # <<>> /\ Head(data).opt = "long"
    /\ \E k \in { j \in DOMAIN lo : lo[j].name = Head(data).name } :
       \E f \in {[Top.aux EXCEPT ![lo[k].flag] = {lo[k].val}]} :
          /\ opts' = [opts EXCEPT
                        !.oflags = (@ \ f.roflag) \cup f.aoflag,
                        !.feat = (@ \ f.riflag) \cup f.aiflag]
          /\ stack' = << [Top EXCEPT !.aux = f] >>
    /\ data' = Tail(data)
    /\ UNCHANGED <<doc, tree, heap, pc, ret, ncalls, input, out>>

\* case 'd': the bits of the name are cleared in opts.feat
OptDisable ==
    /\ pc = "getopt"
    /\ data # <<>> /\ Head(data).opt = "d"
    /\ feature_in(Head(data).name) # {}
    /\ opts' = [opts EXCEPT !.feat = @ \ feature_in(Head(data).name)]
    /\ data' = Tail(data)
    /\ UNCHANGED <<doc, tree, heap, stack, pc, ret, ncalls, input, out>>

\* case 'e': the bits of the name are set in opts.feat
OptEnable ==
    /\ pc = "getopt"
    /\ data # <<>> /\ Head(data).opt = "e"
    /\ feature_in(Head(data).name) # {}
    /\ opts' = [opts EXCEPT !.feat = @ \cup feature_in(Head(data).name)]
    /\ data' = Tail(data)
    /\ UNCHANGED <<doc, tree, heap, stack, pc, ret, ncalls, input, out>>

\* feature_in knows no such name: main goes to usage
OptUsage ==
    /\ pc = "getopt"
    /\ data # <<>> /\ Head(data).opt \in {"d", "e"}
    /\ feature_in(Head(data).name) = {}
    /\ pc' = "usage"
    /\ UNCHANGED <<doc, opts, tree, heap, stack, ret, ncalls, input, data,
                   out>>

\* getopt_long returns -1: the options have been read
OptEnd ==
    /\ pc = "getopt"
    /\ data = <<>>
    /\ pc' = "parsed"
    /\ UNCHANGED <<doc, opts, tree, heap, stack, ret, ncalls, input, data,
                   out>>

NextOpts ==
    \/ OptLong
    \/ OptDisable
    \/ OptEnable
    \/ OptUsage
    \/ OptEnd

SpecOpts == InitOpts /\ [][NextOpts]_vars

(***************************************************************************)
(* Properties of the tree under construction.                              *)
(***************************************************************************)
\* lowdown_doc_parse is between its entry and its return
Parsing == pc \in {"first_pass", "body"}

\* lowdown_doc_parse has returned and the tree has not been released yet
Returned == pc = "done"

\* the parents that list node h among their children
ParentsOf(h) == { p \in 1..Len(tree) : h \in Range(tree[p].children) }

\* the number of nodes from node h up to the root, both included
RECURSIVE PathLen(_)
PathLen(h) == IF h = NULL THEN 0 ELSE 1 + PathLen(tree[h].parent)

TypesOf(cs) == [i \in 1..Len(cs) |-> tree[cs[i]].type]

\* C1: lowdown_doc_parse returns a ROOT node whose first child is the
\* DOC_HEADER and whose last child is the DOC_FOOTER; every body block and
\* the FOOTNOTES_BLOCK lie between them, the FOOTNOTES_BLOCK after the body.
C1_HeaderBodyFooter ==
    Returned =>
        /\ ret.root # NULL
        /\ tree[ret.root].type = "ROOT"
        /\ tree[ret.root].parent = NULL
        /\ LET ts == TypesOf(tree[ret.root].children)
           IN /\ Len(ts) >= 2
              /\ Head(ts) = "DOC_HEADER"
              /\ Last(ts) = "DOC_FOOTER"
              /\ \A i \in 2..(Len(ts) - 1) :
                    /\ ts[i] \notin {"DOC_HEADER", "DOC_FOOTER", "ROOT"}
                    /\ ts[i] = "FOOTNOTES_BLOCK" => i = Len(ts) - 1

\* a returned tree with a body paragraph and a footnotes block
C1_Witness ==
    /\ Returned
    /\ \E i, j \in 1..Len(tree[ret.root].children) :
          /\ tree[tree[ret.root].children[i]].type = "PARAGRAPH"
          /\ tree[tree[ret.root].children[j]].type = "FOOTNOTES_BLOCK"

\* C2: every node but the root has exactly one parent, the one its parent
\* field names, and that parent lists it exactly once; the root has none.
\* This holds in every state of a parse and in the returned tree.
C2_OneParent ==
    (Parsing \/ Returned) =>
        \A h \in 1..Len(tree) :
            IF tree[h].parent = NULL
            THEN tree[h].type = "ROOT" /\ ParentsOf(h) = {}
            ELSE /\ ParentsOf(h) = {tree[h].parent}
                 /\ Occurrences(tree[tree[h].parent].children, h) = 1

\* parse_definition has moved a second paragraph under the DEFINITION that
\* precedes it
C2_Witness ==
    /\ Parsing
    /\ \E h \in NodesOfType(tree, "DEFINITION") :
          Cardinality({ c \in Range(tree[h].children) :
                            tree[c].type = "DEFINITION_TITLE" }) = 2

\* C3 as stated: at the end of the parse depth is 0 and the cursor is the
\* root.
C3_CursorIsRoot ==
    /\ pc # "assert"
    /\ Returned => doc.depth = 0 /\ doc.current = ret.root

\* C3: no assertion of popnode or lowdown_doc_parse fails; during the parse
\* depth is the number of nodes from the cursor up to the root, so that every
\* pop undoes one push; when lowdown_doc_parse returns, depth is 0 and the
\* cursor is the root's parent, which is NULL.
C3_Balanced ==
    /\ pc # "assert"
    /\ Parsing => doc.current # NULL /\ doc.depth = PathLen(doc.current)
    /\ Returned => doc.depth = 0 /\ doc.current = NULL

\* a returned tree with nodes nested below the body blocks
C3_Witness ==
    /\ Returned
    /\ doc.depth = 0
    /\ \E h \in 1..Len(tree) : PathLen(h) >= 4

\* C4 as stated: with a maximum depth M > 0 the depth counter never exceeds
\* M while the parse runs or when it has returned.
C4_DepthWithinMax ==
    (doc.maxdepth # 0 /\ (Parsing \/ Returned)) => doc.depth <= doc.maxdepth

\* C5 as stated: the count lowdown_doc_parse returns through maxn is the
\* number of nodes of the tree it returns, on every call on a doc handle.
C5_CountIsTreeSize ==
    Returned => ret.maxn = Len(tree)

\* C6: the ids of the nodes of a tree are pairwise distinct, and grow in the
\* order the nodes were created in, also after nodes were moved.
C6_DistinctIds ==
    (Parsing \/ Returned) =>
        /\ \A h, k \in 1..Len(tree) : h < k => tree[h].id < tree[k].id
        /\ \A h \in 1..Len(tree) : tree[h].id < doc.nodes

\* the tree returned by a second call, holding a paragraph that was moved
\* under a DEFINITION
C6_Witness ==
    /\ Returned
    /\ ncalls = 2
    /\ NodesOfType(tree, "DEFINITION_TITLE") # {}

\* C7 as stated: once the returned tree is released with lowdown_node_free,
\* nothing the parse allocated is left and nothing was freed twice.
C7_NoLeak ==
    /\ pc # "double_free"
    /\ (pc = "idle" /\ ncalls > 0) => heap = {}

(***************************************************************************)
(* Properties of the inline pass.                                          *)
(***************************************************************************)
\* the byte at index p of span d opens a construct that nothing in the rest
\* of the span closes: a bracket without closing bracket, a run of emphasis
\* delimiters or of backticks with no such byte after the run, a caret and
\* parenthesis without closing parenthesis
Unclosed(d, p) ==
    LET rest(q) == { B(d, k) : k \in q..(Len(d) - 1) }
        c == B(d, p)
    IN CASE c = "[" -> "]" \notin rest(p + 1)
         [] c \in {"*", Tick} -> c \notin rest(ScanPast(d, p, {c}))
         [] c = "^" -> /\ p + 1 < Len(d)
                       /\ B(d, p + 1) = "("
                       /\ ")" \notin rest(p + 2)
         [] OTHER -> FALSE

\* C8 as stated: a handler called at a byte that opens a construct the span
\* never closes returns 0 and adds no node, and parse_inline then puts that
\* byte into a NORMAL_TEXT node.
C8_UnclosedLeftAsText ==
    \A k \in 1..Len(out) :
        (out[k].kind = "call" /\ Unclosed(data, out[k].at)) =>
            /\ out[k].ret = 0
            /\ out[k].added = 0
            /\ pc = "inline_done" => k < Len(out)
            /\ k < Len(out) =>
                  /\ out[k + 1].kind = "text"
                  /\ out[k + 1].at <= out[k].at
                  /\ out[k].at < out[k + 1].at + out[k + 1].ret

(***************************************************************************)
(* Footnote properties.                                                    *)
(***************************************************************************)
\* the FOOTNOTE_REF nodes of tree t that carry ordinal num
RefsWith(t, num) ==
    { h \in NodesOfType(t, "FOOTNOTE_REF") : t[h].num = num }

\* while the footnote list exists: a definition is used iff exactly one
\* FOOTNOTE_REF carries its ordinal, and every FOOTNOTE_REF belongs to
\* exactly one used definition
FootnoteRefsMatch ==
    Parsing =>
        /\ \A j \in 1..Len(doc.footnotes) :
              LET fr == doc.footnotes[j]
              IN IF fr.is_used = 1
                 THEN /\ fr.num \in 1..doc.footnotesz
                      /\ Cardinality(RefsWith(tree, fr.num)) = 1
                 ELSE fr.num = 0
        /\ \A h \in NodesOfType(tree, "FOOTNOTE_REF") :
              Cardinality({ j \in 1..Len(doc.footnotes) :
                               /\ doc.footnotes[j].is_used = 1
                               /\ doc.footnotes[j].num = tree[h].num }) = 1

\* what a step of the inline pass does to the footnotes: a used definition
\* is never touched again; a definition becomes used only as the first one
\* of its name, with the next ordinal, together with a new FOOTNOTE_REF node
\* carrying that ordinal; a reference that leaves the definitions alone
\* (undefined name, or definition already used) adds a NORMAL_TEXT node
\* holding the reference itself
FootnoteRefStep ==
    (Parsing /\ pc' \in {"first_pass", "body"}
        /\ Len(doc'.footnotes) = Len(doc.footnotes)) =>
        /\ \A j \in 1..Len(doc.footnotes) :
              LET fr == doc.footnotes[j]
                  fr1 == doc'.footnotes[j]
              IN /\ fr.is_used = 1 => fr1 = fr
                 /\ (fr.is_used = 0 /\ fr1.is_used = 1) =>
                       /\ find_footnote_ref(doc.footnotes, fr.name) = j
                       /\ fr1.num = doc.footnotesz + 1
                       /\ doc'.footnotesz = doc.footnotesz + 1
                       /\ Len(tree') = Len(tree) + 1
                       /\ Last(tree').type = "FOOTNOTE_REF"
                       /\ Last(tree').num = fr1.num
        /\ (Len(tree') = Len(tree) + 1 /\ Last(tree').type = "FOOTNOTE_REF") =>
              \E j \in 1..Len(doc.footnotes) :
                  /\ doc.footnotes[j].is_used = 0
                  /\ doc'.footnotes[j].is_used = 1
        /\ (Len(tree') = Len(tree) + 1 /\ Last(tree').type = "NORMAL_TEXT"
               /\ Last(tree').str \in FootnoteNames) =>
              /\ doc'.footnotes = doc.footnotes
              /\ doc'.footnotesz = doc.footnotesz
              /\ LET j == find_footnote_ref(doc.footnotes, Last(tree').str)
                 IN j = 0 \/ doc.footnotes[j].is_used = 1

\* C9: the first reference to a footnote definition makes a FOOTNOTE_REF
\* with the next ordinal and marks the definition used; later references to
\* it and references to undefined names make NORMAL_TEXT nodes holding the
\* reference; so a FOOTNOTE_REF of a definition exists iff the definition
\* is marked used, and it is marked once.
C9_FootnoteRefs == [](FootnoteRefsMatch) /\ [][FootnoteRefStep]_vars

\* a definition was referenced twice and an undefined name once
C9_Witness ==
    /\ Parsing
    /\ \E j \in 1..Len(doc.footnotes) :
          /\ doc.footnotes[j].is_used = 1
          /\ RefsWith(tree, doc.footnotes[j].num) # {}
          /\ \E h \in NodesOfType(tree, "NORMAL_TEXT") :
                tree[h].str = doc.footnotes[j].name
    /\ \E h \in NodesOfType(tree, "NORMAL_TEXT") :
          /\ tree[h].str \in FootnoteNames
          /\ find_footnote_ref(doc.footnotes, tree[h].str) = 0

\* C10: when lowdown_doc_parse returns with footnotes enabled, the ordinals
\* of the FOOTNOTE_REF nodes are exactly 1..k without repeat; for k = 0 there
\* is no FOOTNOTES_BLOCK and no FOOTNOTE_DEF; otherwise there is one
\* FOOTNOTES_BLOCK whose children are the FOOTNOTE_DEF nodes of the
\* ordinals 1..k in ascending order, and there is no other FOOTNOTE_DEF.
C10_FootnoteDefs ==
    (Returned /\ "FOOTNOTES" \in doc.ext_flags) =>
        LET refs == NodesOfType(tree, "FOOTNOTE_REF")
            defs == NodesOfType(tree, "FOOTNOTE_DEF")
            blocks == NodesOfType(tree, "FOOTNOTES_BLOCK")
            k == Cardinality(refs)
        IN /\ { tree[h].num : h \in refs } = 1..k
           /\ Cardinality(defs) = k
           /\ IF k = 0 THEN blocks = {}
              ELSE /\ Cardinality(blocks) = 1
                   /\ \A b \in blocks :
                         /\ Len(tree[b].children) = k
                         /\ \A i \in 1..k :
                               /\ tree[b].children[i] \in defs
                               /\ tree[tree[b].children[i]].num = i

\* a returned tree where the contents of a footnote reference another
\* footnote
C10_Witness ==
    /\ Returned
    /\ \E h \in NodesOfType(tree, "FOOTNOTE_REF") :
          /\ tree[h].num = 2
          /\ \E a \in NodesOfType(tree, "FOOTNOTE_DEF") :
                /\ tree[a].num = 1
                /\ tree[tree[h].parent].parent = a

\* the nodes of the tree of the given type whose parent has a type in ts
ChildrenOnlyOf(type, ts) ==
    \A h \in NodesOfType(tree, type) :
        /\ tree[h].parent # NULL
        /\ tree[tree[h].parent].type \in ts

\* C11 as stated: in every returned tree the parent of every LISTITEM is a
\* LIST or a DEFINITION.
C11_ListitemUnderListOrDefinition ==
    Returned => ChildrenOnlyOf("LISTITEM", {"LIST", "DEFINITION"})

\* C11: while a tree is built and when it is returned, the parent of every
\* LISTITEM is a LIST or a DEFINITION_DATA; the items of a definition are
\* the children of DEFINITION_DATA nodes, whose parent is the DEFINITION.
C11_ListitemUnderListOrData ==
    (Parsing \/ Returned) =>
        /\ ChildrenOnlyOf("LISTITEM", {"LIST", "DEFINITION_DATA"})
        /\ ChildrenOnlyOf("DEFINITION_DATA", {"DEFINITION"})

\* a returned tree with a definition whose data holds a LISTITEM
C11_Witness ==
    /\ Returned
    /\ \E h \in NodesOfType(tree, "LISTITEM") :
          /\ tree[tree[h].parent].type = "DEFINITION_DATA"
          /\ tree[tree[tree[h].parent].parent].type = "DEFINITION"

\* the TABLE_ROW nodes of the table block t: the children of its
\* TABLE_HEADER and TABLE_BODY
RowsOf(t) ==
    { r \in NodesOfType(tree, "TABLE_ROW") :
        /\ tree[r].parent # NULL
        /\ tree[tree[r].parent].type \in {"TABLE_HEADER", "TABLE_BODY"}
        /\ tree[tree[r].parent].parent = t }

\* C12: every TABLE_ROW that parse_table_row has finished, in a TABLE_BLOCK
\* with column count C, has exactly C children, all TABLE_CELL, whose col
\* fields are 0, 1, ..., C - 1 in order, whatever the number of cells
\* written on the row; so every col < C.
C12_RowCells ==
    /\ \A r \in NodesOfType(tree, "TABLE_ROW") :
          \E t \in NodesOfType(tree, "TABLE_BLOCK") : r \in RowsOf(t)
    /\ \A t \in NodesOfType(tree, "TABLE_BLOCK") :
          /\ tree[t].columns >= 1
          /\ \A r \in RowsOf(t) \ {IF pc = "table_row" THEN doc.current
                                   ELSE NULL} :
                /\ Len(tree[r].children) = tree[t].columns
                /\ \A k \in 1..Len(tree[r].children) :
                      /\ tree[tree[r].children[k]].type = "TABLE_CELL"
                      /\ tree[tree[r].children[k]].col = k - 1
                      /\ tree[tree[r].children[k]].col < tree[t].columns
                      /\ tree[tree[r].children[k]].columns = tree[t].columns

\* a finished table of two columns whose body has a row written with one
\* cell and a row written with four
C12_Witness ==
    /\ pc = "table_done"
    /\ data = JoinLines(<< <<"a", "|", "a">>,
                           <<"-", "-", "-", "|", "-", "-", "-">>,
                           <<"a", "|">>,
                           <<"a", "|", "a", "|", "a", "|", "a">> >>)
    /\ \E t \in NodesOfType(tree, "TABLE_BLOCK") :
          tree[t].columns = 2 /\ Cardinality(RowsOf(t)) = 3

\* the HEADER that has just been made, NULL when the last step made none:
\* its popnode and the parse_inline of its bytes are what is to be done next
NewHeader ==
    IF /\ pc = "block" /\ Len(stack) >= 2
       /\ Top.fn = "parse_inline"
       /\ stack[Len(stack) - 1].fn = "popnode"
       /\ tree[stack[Len(stack) - 1].n].type = "HEADER"
       /\ stack[Len(stack) - 1].n = Len(tree)
    THEN Len(tree) ELSE NULL

\* the number of "#" the bytes d start with
RECURSIVE Hashes(_)
Hashes(d) == IF d # <<>> /\ Head(d) = "#" THEN 1 + Hashes(Tail(d)) ELSE 0

\* the last byte before index i of d that is neither a space nor a newline
RECURSIVE LastInk(_, _)
LastInk(d, i) ==
    IF i = 0 THEN NULL
    ELSE IF d[i] \in {" ", "\n"} THEN LastInk(d, i - 1) ELSE d[i]

\* C13: every HEADER node has a level in 0..5; a header of n "#", counted
\* up to 6, has level n - 1; a header under a line of "=" has level 0 and
\* one under a line of "-" has level 1.
C13_HeaderLevel ==
    /\ \A n \in 1..Len(tree) :
          tree[n].type = "HEADER" => tree[n].level \in 0..5
    /\ NewHeader # NULL /\ Last(out).kind = "atxheader" =>
          tree[NewHeader].level
             = (IF Hashes(Last(out).at) > 6 THEN 6 ELSE Hashes(Last(out).at))
               - 1
    /\ NewHeader # NULL /\ Last(out).kind = "paragraph" =>
          \E f \in {stack[Len(stack) - 2]} :
             /\ f.fn = "parse_block"
             /\ LastInk(f.aux[1], f.aux[2]) \in {"=", "-"}
             /\ tree[NewHeader].level
                   = (IF LastInk(f.aux[1], f.aux[2]) = "=" THEN 0 ELSE 1)

\* a text with a header of more than 6 "#", a header under "=" and a header
\* under "-" has been parsed
C13_Witness ==
    /\ pc = "block_done"
    /\ \E a, b, c \in 1..Len(tree) :
          /\ a < b /\ b < c
          /\ tree[a].type = "HEADER" /\ tree[a].level = 5
          /\ tree[b].type = "HEADER" /\ tree[b].level = 0
          /\ tree[c].type = "HEADER" /\ tree[c].level = 1
          /\ Hashes(data) = 7

\* the first line of the input its that defines a reference with the name
\* key, as a sequence that is empty when there is none
RECURSIVE FirstDef(_, _)
FirstDef(its, key) ==
    IF its = <<>> THEN <<>>
    ELSE IF Head(its).def /\ Head(its).name = key THEN <<Head(its)>>
    ELSE FirstDef(Tail(its), key)

\* the key of the line it that uses a reference
RefKey(it) == IF it.form = "reference" THEN it.id ELSE it.text

\* the link and title of the LINK nodes the lines us ought to make with
\* the definitions of the input its.  The "[]" of a collapsed form whose
\* key is not defined is a shortcut form with the empty key.
RECURSIVE ExpectedLinks(_, _)
ExpectedLinks(its, us) ==
    LET it == Head(us)
        found(d) == IF d = <<>> THEN <<>>
                    ELSE << [link |-> d[1].url, title |-> d[1].title] >>
    IN IF us = <<>> THEN <<>>
       ELSE IF it.def THEN ExpectedLinks(its, Tail(us))
       ELSE found(IF FirstDef(its, RefKey(it)) = <<>>
                     /\ it.form = "collapsed"
                  THEN FirstDef(its, <<>>)
                  ELSE FirstDef(its, RefKey(it)))
            \o ExpectedLinks(its, Tail(us))

\* the opening brackets the lines us ought to leave as text
RECURSIVE ExpectedBrackets(_, _)
ExpectedBrackets(its, us) ==
    LET it == Head(us)
    IN IF us = <<>> THEN 0
       ELSE IF it.def THEN ExpectedBrackets(its, Tail(us))
       ELSE (IF FirstDef(its, RefKey(it)) # <<>> THEN 0
             ELSE IF it.form = "shortcut" THEN 1
             ELSE IF it.form = "collapsed" /\ FirstDef(its, <<>>) # <<>>
             THEN 1
             ELSE 2)
            + ExpectedBrackets(its, Tail(us))

\* the link and title of the LINK nodes of the tree t from node n on
RECURSIVE LinksOf(_, _)
LinksOf(t, n) ==
    IF n > Len(t) THEN <<>>
    ELSE (IF t[n].type = "LINK"
          THEN << [link |-> t[n].link, title |-> t[n].title] >> ELSE <<>>)
         \o LinksOf(t, n + 1)

\* the number of "[" in the text of the NORMAL_TEXT nodes of t from n on
RECURSIVE BracketsOf(_, _)
BracketsOf(t, n) ==
    IF n > Len(t) THEN 0
    ELSE (IF t[n].type = "NORMAL_TEXT"
          THEN Len(SelectSeq(t[n].str, LAMBDA c : c = "["))
          ELSE 0)
         + BracketsOf(t, n + 1)

\* C14: a link in the reference or shortcut form becomes a LINK with the
\* link and title of the first line of the input that defines its key,
\* before or after it; without such a line no LINK is made and the
\* brackets stay text.
C14_ReferenceResolution ==
    pc = "block_done" =>
       /\ LinksOf(tree, 1) = ExpectedLinks(input, input)
       /\ BracketsOf(tree, 1) = ExpectedBrackets(input, input)

\* a reference has been used before the two lines that define it, and the
\* first of them has been taken
C14_Witness ==
    /\ pc = "block_done"
    /\ Len(input) = 3
    /\ ~input[1].def /\ input[1].form = "shortcut"
    /\ input[2].def /\ input[2].name = input[1].text
    /\ input[3].def /\ input[3].name = input[1].text
    /\ input[3].link # input[2].link
    /\ LinksOf(tree, 1) = << [link |-> input[2].url,
                              title |-> input[2].title] >>

\* the tests of parse_block, by the name of the branch each one guards,
\* in the order of C15 (the inputs hold no "<", so none starts an HTML
\* block)
BlockOrder ==
    << "atxheader", "empty", "hrule", "fencedcode", "table", "blockquote",
       "blockcode", "uli", "definition", "oli", "paragraph" >>

\* whether the test of the branch holds on the bytes d in the world w
BlockTest(kind, w, d) ==
    CASE kind = "atxheader" -> is_atxheader(w.doc, d)
      [] kind = "empty" -> is_empty(d) # 0
      [] kind = "hrule" -> is_hrule(d)
      [] kind = "fencedcode" ->
            /\ "FENCED" \in w.doc.ext_flags
            /\ parse_codefence(Take(d, ScanTo(d, 0, {"\n"}))).i # 0
      [] kind = "table" ->
            "TABLES" \in w.doc.ext_flags /\ parse_table_header(w, d).i # 0
      [] kind = "blockquote" -> prefix_quote(d) # 0
      [] kind = "blockcode" ->
            "NOCODEIND" \notin w.doc.ext_flags /\ prefix_code(d) # 0
      [] kind = "uli" -> prefix_uli(d) # 0
      [] kind = "definition" -> prefix_dli(w.doc, d) # 0 /\ CanDefine(w)
      [] kind = "oli" -> prefix_oli(w.doc, d) # 0
      [] kind = "paragraph" -> TRUE

\* the first branch from the k-th of BlockOrder on whose test holds
RECURSIVE FirstBlock(_, _, _)
FirstBlock(k, w, d) ==
    IF BlockTest(BlockOrder[k], w, d) THEN BlockOrder[k]
    ELSE FirstBlock(k + 1, w, d)

\* the types of the first node a branch may make in the step that takes it
BlockTypes(kind) ==
    CASE kind \in {"atxheader", "empty"} -> {"none"}
      [] kind = "hrule" -> {"HRULE"}
      [] kind \in {"fencedcode", "blockcode"} -> {"BLOCKCODE"}
      [] kind = "table" -> {"TABLE_BLOCK"}
      [] kind = "blockquote" -> {"BLOCKQUOTE"}
      [] kind \in {"uli", "oli"} -> {"LIST"}
      [] kind = "definition" -> {"DEFINITION", "DEFINITION_TITLE"}
      [] kind = "paragraph" -> {"PARAGRAPH", "none"}

\* a step in which parse_block takes a branch
BlockTaken == out' # out /\ pc' = "block"

QueueEntries ==
    UNION { Range(cfg.meta) \cup Range(cfg.metaovr) :
            cfg \in { c \in Configs : c.feat = doc.ext_flags } }

\* the META nodes under DOC_HEADER
MetaNodes ==
    { n \in 1..Len(tree) :
        /\ tree[n].type = "META"
        /\ tree[n].parent # NULL
        /\ tree[tree[n].parent].type = "DOC_HEADER" }

\* the value of a META node: the text of its NORMAL_TEXT child
MetaValue(n) ==
    IF tree[n].children = <<>> THEN <<>>
    ELSE << tree[tree[n].children[1]].str >>

\* C16: when the first parse on a handle with the metadata feature returns,
\* every entry of the command-line queues is a META node under DOC_HEADER
\* with a NORMAL_TEXT child holding its value, unless the document set the
\* key itself (a META node with that key and the document's value or none)
C16_QueueMetaInTree ==
    (Returned /\ ncalls = 1 /\ "METADATA" \in doc.ext_flags) =>
        \A md \in QueueEntries :
            \E n \in MetaNodes :
                /\ tree[n].str = md.key
                /\ MetaValue(n) \in {<<md.value>>, <<"doc">>, <<>>}

\* the positions of the tabs of a line
TabsOf(s) == { i \in 1..Len(s) : s[i] = "\t" }

\* the column after the bytes of s: continuation bytes take no column
Columns(s) == Cardinality({ i \in 1..Len(s) : s[i] # "cont" })

\* the bytes the first i bytes of the line take in the output when its tabs
\* are ks[j] bytes wide
RECURSIVE WidthSum(_, _, _)
WidthSum(line, ks, i) ==
    IF i = 0 THEN 0
    ELSE WidthSum(line, ks, i - 1) + (IF line[i] = "\t" THEN ks[i] ELSE 1)

\* o is the line with each tab replaced by 1 to 4 spaces that end at a
\* column which is a multiple of 4, and every other byte kept in its place
TabsExpanded(line, o) ==
    \E ks \in [TabsOf(line) -> 1..4] :
        /\ Len(o) = WidthSum(line, ks, Len(line))
        /\ \A i \in 1..Len(line) :
              IF line[i] = "\t"
              THEN /\ \A p \in (WidthSum(line, ks, i - 1) + 1)
                               ..WidthSum(line, ks, i) : o[p] = " "
                   /\ Columns(SubSeq(o, 1, WidthSum(line, ks, i))) % 4 = 0
              ELSE o[WidthSum(line, ks, i)] = line[i]

\* C19: the expansion of a line holds no tab; each tab has become 1 to 4
\* spaces reaching the next column that is a multiple of 4, continuation
\* bytes not counting; the other bytes are copied in order; a line without
\* tabs is unchanged, and expanding the expansion changes nothing
C19_TabExpansion ==
    /\ pc = "expanded" =>
          /\ TabsOf(out) = {}
          /\ TabsExpanded(data, out)
          /\ TabsOf(data) = {} => out = data
    /\ pc = "again" => out = data

C19_Witness ==
    /\ pc = "expanded"
    /\ data = <<"a", "cont", "\t", "a">>
    /\ out = <<"a", "cont", " ", " ", " ", "a">>

\* the text starts with a fence line "~~~" that no later line closes
UnclosedFence ==
    /\ "FENCED" \in doc.ext_flags
    /\ Len(data) >= 4
    /\ SubSeq(data, 1, 4) = <<"~", "~", "~", "\n">>
    /\ \A i \in 5..Len(data) : data[i - 1] = "\n" => data[i] # "~"

BlockCodes == { n \in 1..Len(tree) : tree[n].type = "BLOCKCODE" }

RECURSIVE Under(_, _)
Under(n, type) ==
    LET p == tree[n].parent
    IN IF p = NULL THEN FALSE
       ELSE tree[p].type = type \/ Under(p, type)

\* char_link is parsing the text of a link
InLinkText == \E k \in 1..Len(stack) : stack[k].fn = "char_link"

\* C18: no node made by the handler of bare URLs is below a LINK node, and
\* in_link_body is 0 whenever no link text is being parsed
C18_NoAutolinkInLink ==
    /\ \A n \in 1..Len(tree) :
          tree[n].type = "LINK_AUTO" => ~Under(n, "LINK")
    /\ (Parsing /\ ~InLinkText) => doc.in_link_body = 0

\* the bytes that are active under the feature set flags
GateActive(flags, c) ==
    \/ c \in {"*", "_", Tick, "\n", "[", "!", "<", "\\", "&"}
    \/ c = "~" /\ "STRIKE" \in flags
    \/ c = "=" /\ "HILITE" \in flags
    \/ c = "^" /\ "SUPER" \in flags
    \/ c = "$" /\ "MATH" \in flags
    \/ c \in {":", "@", "w"} /\ "AUTOLINK" \in flags

NodeTypes == { tree[n].type : n \in 1..Len(tree) }

\* the feature a node type needs
GatedTypes ==
    { <<"STRIKETHROUGH", "STRIKE">>, <<"HIGHLIGHT", "HILITE">>,
      <<"SUPERSCRIPT", "SUPER">>, <<"MATH_BLOCK", "MATH">> }

\* C17: a STRIKETHROUGH, HIGHLIGHT, SUPERSCRIPT or MATH_BLOCK node exists
\* only under its feature; a handler is called only at a byte that is
\* always active or whose feature is on (so never at ':', '@' or 'w'
\* without AUTOLINK); and a byte copied as text without a handler having
\* been called at it and having returned 0 is not active
C17_FeatureGates ==
    /\ \A g \in GatedTypes : g[1] \in NodeTypes => g[2] \in doc.ext_flags
    /\ \A k \in 1..Len(out) :
          IF out[k].kind = "call"
          THEN GateActive(doc.ext_flags, B(data, out[k].at))
          ELSE \A p \in out[k].at..(out[k].at + out[k].ret - 1) :
                  GateActive(doc.ext_flags, B(data, p)) =>
                      /\ p = out[k].at
                      /\ k > 1
                      /\ out[k - 1] = [kind |-> "call", at |-> p, ret |-> 0,
                                       added |-> out[k - 1].added]

C17_Witness ==
    /\ pc = "inline_done"
    /\ doc.ext_flags = {"HILITE"}
    /\ data = <<"*", "~", "~", "a", "~", "~", "*">>
    /\ \E n \in 1..Len(tree) :
          tree[n].type = "NORMAL_TEXT" /\ tree[n].str = SubSeq(data, 2, 6)
    /\ Len(out) = 1

\* the number of bytes c the line starts with
RECURSIVE LeadRun(_, _)
LeadRun(l, c) ==
    IF l # <<>> /\ Head(l) = c THEN 1 + LeadRun(Tail(l), c) ELSE 0

\* the line opens a fence: at least three backticks or tildes
OpensFence(l) ==
    l # <<>> /\ Head(l) \in {"~", Tick} /\ LeadRun(l, Head(l)) >= 3

\* the line is a run of at least as many of the opener's bytes, followed by
\* spaces only
ClosesFence(l, o) ==
    /\ LeadRun(l, Head(o)) >= LeadRun(o, Head(o))
    /\ \A i \in (LeadRun(l, Head(o)) + 1)..Len(l) : l[i] = " "

\* the line has the shape of a reference definition
DefLine(l) == Len(l) > 3 /\ l[1] = "[" /\ l[3] = "]" /\ l[4] = ":"

\* the index of the first line after the first that closes the fence the
\* first line opens, 0 when there is none
FirstCloser(ls) ==
    IF \E k \in 2..Len(ls) : ClosesFence(ls[k], ls[1])
    THEN CHOOSE k \in 2..Len(ls) :
            /\ ClosesFence(ls[k], ls[1])
            /\ \A j \in 2..(k - 1) : ~ClosesFence(ls[j], ls[1])
    ELSE 0

\* the first block of the document
FirstBlockNode == tree[1].children[2]

\* C21: a fence opened by the first line is closed by the first later line
\* that is a run of at least as many of the same byte followed by spaces
\* only: the BLOCKCODE holds the lines between the two
C21_FenceClosedByLongerRun ==
    (/\ pc = "block_done"
     /\ input # <<>>
     /\ OpensFence(input[1])
     /\ \A k \in 1..Len(input) : ~DefLine(input[k])
     /\ FirstCloser(input) # 0) =>
        /\ Len(tree[1].children) >= 2
        /\ tree[FirstBlockNode].type = "BLOCKCODE"
        /\ tree[FirstBlockNode].str =
              JoinLines(SubSeq(input, 2, FirstCloser(input) - 1))

\* the span is n backticks, bytes without a backtick, and n backticks
CodeBetween(n) == SubSeq(data, n + 1, Len(data) - n)

IsCodespan(n) ==
    /\ Len(data) > 2 * n
    /\ \A i \in 1..n : data[i] = Tick /\ data[Len(data) + 1 - i] = Tick
    /\ Tick \notin Range(CodeBetween(n))

\* the bytes s without one space at each end, when there is one
TrimOne(s) ==
    LET a == IF s # <<>> /\ Head(s) = " " THEN 2 ELSE 1
        b == IF Len(s) >= a /\ Last(s) = " " THEN Len(s) - 1 ELSE Len(s)
    IN SubSeq(s, a, b)

\* the bytes s without the spaces at its ends
TrimAll(s) ==
    IF \A i \in 1..Len(s) : s[i] = " " THEN <<>>
    ELSE SubSeq(s, CHOOSE a \in 1..Len(s) :
                      s[a] # " " /\ \A i \in 1..(a - 1) : s[i] = " ",
                   CHOOSE b \in 1..Len(s) :
                      s[b] # " " /\ \A i \in (b + 1)..Len(s) : s[i] = " ")

\* the text of the last node made is s
LastNodeIs(type, s) ==
    /\ tree[Len(tree)].type = type
    /\ IF s = <<>> THEN DOMAIN tree[Len(tree)].bufs = {}
       ELSE "text" \in DOMAIN tree[Len(tree)].bufs /\ tree[Len(tree)].str = s

\* C22 as stated: the CODESPAN text is the bytes between the delimiters
\* without one leading and one trailing space
C22_CodespanTrimsOne ==
    \A n \in 1..MaxCode :
        (pc = "inline_done" /\ IsCodespan(n)) =>
            LastNodeIs("CODESPAN", TrimOne(CodeBetween(n)))

\* C22: the CODESPAN text is the bytes between the delimiters without any
\* of their leading and trailing spaces
C22_CodespanTrimsAll ==
    \A n \in 1..MaxCode :
        (pc = "inline_done" /\ IsCodespan(n)) =>
            LastNodeIs("CODESPAN", TrimAll(CodeBetween(n)))

C22_Witness ==
    /\ pc = "inline_done"
    /\ data = <<Tick, " ", " ", "a", " ", " ", Tick>>
    /\ LastNodeIs("CODESPAN", <<"a">>)

\* spans opened by three asterisks whose first closing run has two (one)
\* and which end with the one (two) that are left
TripleSpans ==
    { <<"*", "*", "*">> \o x \o c[1] \o y \o c[2] :
        x \in { <<"a">>, <<"a", "a">> },
        y \in { <<"a">>, <<" ", "a">> },
        c \in { << <<"*", "*">>, <<"*">> >>, << <<"*">>, <<"*", "*">> >> } }

\* C23: on a span opened by three delimiters whose first closing run has
\* two (one) and whose last bytes are the one (two) left, the handler called
\* at the first byte takes the whole span and an EMPHASIS and a
\* DOUBLE_EMPHASIS node are made
C23_TripleDelegates ==
    (pc = "inline_done" /\ data \in TripleSpans) =>
        /\ out # <<>>
        /\ out[1] = [kind |-> "call", at |-> 0, ret |-> Len(data),
                     added |-> out[1].added]
        /\ {"EMPHASIS", "DOUBLE_EMPHASIS"} \subseteq NodeTypes

\* the number of spaces a line starts with
Indent(l) == LeadRun(l, " ")

FootDef(l) == Len(l) > 4 /\ l[1] = "[" /\ l[2] = "^"

\* line k continues a footnote when lines indented by m spaces do: a
\* definition is above it with only blank and such lines in between
InFoot(ls, k, m) ==
    \E j \in 1..(k - 1) :
        /\ FootDef(ls[j])
        /\ \A i \in (j + 1)..k : ls[i] = <<>> \/ Indent(ls[i]) >= m

\* what the lines from k on add to the contents of a footnote: up to four
\* spaces of indentation are dropped, a newline stands for blank lines
RECURSIVE FootText(_, _, _, _)
FootText(ls, k, m, blank) ==
    IF k > Len(ls) THEN <<>>
    ELSE IF ls[k] = <<>> THEN FootText(ls, k + 1, m, TRUE)
    ELSE IF Indent(ls[k]) < m THEN <<>>
    ELSE (IF blank THEN <<"\n">> ELSE <<>>)
         \o SubSeq(ls[k], (IF Indent(ls[k]) > 4 THEN 4 ELSE Indent(ls[k])) + 1,
                   Len(ls[k]))
         \o <<"\n">> \o FootText(ls, k + 1, m, FALSE)

\* the contents of the footnotes of the lines from k on
RECURSIVE FootTexts(_, _, _)
FootTexts(ls, k, m) ==
    IF k > Len(ls) THEN <<>>
    ELSE IF FootDef(ls[k])
    THEN << <<"x", "\n">> \o FootText(ls, k + 1, m, FALSE) >>
         \o FootTexts(ls, k + 1, m)
    ELSE FootTexts(ls, k + 1, m)

\* the lines from k on that belong to no footnote
RECURSIVE PassedLines(_, _, _)
PassedLines(ls, k, m) ==
    IF k > Len(ls) THEN <<>>
    ELSE (IF FootDef(ls[k]) \/ InFoot(ls, k, m) THEN <<>>
          ELSE ls[k] \o <<"\n">>)
         \o PassedLines(ls, k + 1, m)

\* the loop of the first pass has ended
FirstPassOver ==
    pc = "first_pass" /\ stack # <<>> /\ Top.aux[1] >= Len(data)

\* C24 as stated: the lines that continue a footnote are those indented by
\* at least 4 spaces; the others are left to the block parser
C24_ContinuationNeedsFour ==
    FirstPassOver =>
        /\ [i \in 1..Len(doc.footnotes) |-> doc.footnotes[i].text]
              = FootTexts(input, 1, 4)
        /\ Top.aux[2] = PassedLines(input, 1, 4)

\* C24: the lines that continue a footnote are those indented by at least
\* 1 space; a line that is not indented ends the footnote and is left to
\* the block parser
C24_ContinuationNeedsOne ==
    FirstPassOver =>
        /\ [i \in 1..Len(doc.footnotes) |-> doc.footnotes[i].text]
              = FootTexts(input, 1, 1)
        /\ Top.aux[2] = PassedLines(input, 1, 1)

C24_Witness ==
    /\ FirstPassOver
    /\ input = << <<"[", "^", "a", "]", ":", " ", "x">>, <<" ", "b">>,
                  <<>>, <<"b">> >>
    /\ doc.footnotes[1].text = <<"x", "\n", "b", "\n">>
    /\ Top.aux[2] = <<"b", "\n">>

\* the name of the tag that opens the bytes t, in lower case
TagName(t) ==
    [k \in 1..(ScanTo(t, 1, {">", " "}) - 1) |-> tolower(t[k + 1])]

\* the bytes t open with a comment or with an HR
SpecialTag(t) ==
    \/ Len(t) > 3 /\ SubSeq(t, 1, 4) = <<"<", "!", "-", "-">>
    \/ Len(t) > 2 /\ tolower(t[2]) = "h" /\ tolower(t[3]) = "r"

BlockHtmls == { n \in 1..Len(tree) : tree[n].type = "BLOCKHTML" }

\* C25: a BLOCKHTML opens with a tag whose name is one of the block-level
\* names, with a comment or with an HR; a name that only begins a
\* block-level name, or an empty name, makes no BLOCKHTML
C25_HtmlBlockTagListed ==
    \A n \in BlockHtmls :
        \/ \E k \in DOMAIN tags : TagName(tree[n].str) = tags[k]
        \/ SpecialTag(tree[n].str)

\* the language word of the line that opens a fence: what follows the run
\* and the spaces after it, up to the next space
FenceLang(l) ==
    LET rest == From(l, LeadRun(l, Head(l)))
        word == From(rest, LeadRun(rest, " "))
    IN Take(word, ScanTo(word, 0, {" "}))

\* the first line opens a fence that a later line of the same width closes
FencedFirst ==
    /\ pc = "block_done"
    /\ input # <<>>
    /\ OpensFence(input[1])
    /\ FirstCloser(input) # 0
    /\ LeadRun(input[FirstCloser(input)], Head(input[1]))
          = LeadRun(input[1], Head(input[1]))

\* C26: a fenced block at the top level has the language word of its
\* opening line and holds every line between its fences, a line with the
\* shape of a reference definition too, and no reference is collected from
\* such a line
C26_FencedBlockVerbatim ==
    FencedFirst =>
        /\ Len(tree[1].children) >= 2
        /\ tree[FirstBlockNode].type = "BLOCKCODE"
        /\ tree[FirstBlockNode].lang = FenceLang(input[1])
        /\ tree[FirstBlockNode].str =
              JoinLines(SubSeq(input, 2, FirstCloser(input) - 1))
        /\ \A k \in 2..(FirstCloser(input) - 1) :
              DefLine(input[k]) => doc.refq = <<>>

\* the handle and the options it refers to as they are before the first
\* parse
FreshWorld ==
    [doc |-> lowdown_doc_new(TwiceConfig),
     opts |-> [meta |-> TwiceConfig.meta, metaovr |-> TwiceConfig.metaovr],
     tree |-> <<>>, heap |-> {}, err |-> "none", b |-> NULL]

\* the subtree of node a of the tree s and the subtree of node b of the
\* tree t are equal in shape, types and payloads
RECURSIVE SameTree(_, _, _, _)
SameTree(s, a, t, b) ==
    /\ s[a].type = t[b].type
    /\ s[a].str = t[b].str
    /\ s[a].num = t[b].num
    /\ s[a].flags = t[b].flags
    /\ Len(s[a].children) = Len(t[b].children)
    /\ \A i \in 1..Len(s[a].children) :
          SameTree(s, s[a].children[i], t, t[b].children[i])

\* C27: the second parse on a handle builds, of the same metadata block,
\* the DOC_HEADER that the first parse on the handle builds of it
C27_SecondParseSameHeader ==
    [][\A es \in MetaBlocks \cup {<<>>} :
          (/\ pc = "idle" /\ ncalls = 1 /\ pc' = "first_pass"
           /\ tree' = doc_parse_begin(World, es).tree) =>
              SameTree(tree', doc'.current,
                       doc_parse_begin(FreshWorld, es).tree,
                       Cur(doc_parse_begin(FreshWorld, es)))]_vars

\* C28: every byte of the input that the head of lowdown_doc_parse reads
\* (the byte order mark, the test for a metadata block) lies below its size
C28_ReadsBelowSize ==
    \A k \in 1..Len(out) : out[k].kind = "read" => out[k].at < Len(data)

\* the entry of the table lo for a long option
LoOf(a) == lo[CHOOSE j \in DOMAIN lo : lo[j].name = a.name]

\* the positions of the long options on the command line that add the bit
\* F through the local add or remove it through the local remove
Targeting(F, add, remove) ==
    { k \in DOMAIN input :
        /\ input[k].opt = "long"
        /\ LoOf(input[k]).val = F
        /\ LoOf(input[k]).flag \in {add, remove} }

\* the bit F of a word is as the last option targeting it leaves it, or as
\* main set it when no option targets it
LastWins(F, word, default, add, remove) ==
    IF Targeting(F, add, remove) = {}
    THEN (F \in word) = (F \in default)
    ELSE (F \in word) =
         (LoOf(input[CHOOSE k \in Targeting(F, add, remove) :
                        \A j \in Targeting(F, add, remove) : j <= k]).flag
             = add)

\* all options have been read and all were long options
LongOptionsRead ==
    pc = "parsed" /\ \A k \in DOMAIN input : input[k].opt = "long"

\* C29: after a command line of long options, each bit of opts.feat and of
\* opts.oflags is set if the last option targeting it adds it and clear if
\* the last option targeting it removes it
C29_LastLongOptionWins ==
    LongOptionsRead =>
        \A j \in DOMAIN lo :
            /\ LastWins(lo[j].val, opts.feat, DefaultFeat, "aiflag", "riflag")
            /\ LastWins(lo[j].val, opts.oflags, DefaultOflags, "aoflag",
                        "roflag")

\* the names of the parse features and the bit each of them names
FeatureNames ==
    << [name |-> <<"t", "a", "b", "l", "e", "s">>, bit |-> "TABLES"],
       [name |-> <<"f", "e", "n", "c", "e", "d">>, bit |-> "FENCED"],
       [name |-> <<"f", "o", "o", "t", "n", "o", "t", "e", "s">>, bit |-> "FOOTNOTES"],
       [name |-> <<"a", "u", "t", "o", "l", "i", "n", "k">>, bit |-> "AUTOLINK"],
       [name |-> <<"s", "t", "r", "i", "k", "e">>, bit |-> "STRIKE"],
       [name |-> <<"h", "i", "l", "i", "t", "e">>, bit |-> "HILITE"],
       [name |-> <<"s", "u", "p", "e", "r">>, bit |-> "SUPER"],
       [name |-> <<"m", "a", "t", "h">>, bit |-> "MATH"],
       [name |-> <<"n", "o", "i", "n", "t", "e", "m">>, bit |-> "NOINTEM"],
       [name |-> <<"n", "o", "c", "o", "d", "e", "i", "n", "d">>, bit |-> "NOCODEIND"],
       [name |-> <<"m", "e", "t", "a", "d", "a", "t", "a">>, bit |-> "METADATA"],
       [name |-> <<"c", "o", "m", "m", "o", "n", "m", "a", "r", "k">>, bit |-> "COMMONMARK"] >>

\* the bit that the name v names, whatever the case of its letters
OwnBit(v) ==
    FeatureNames[CHOOSE j \in DOMAIN FeatureNames :
                    strcasecmp(v, FeatureNames[j].name)].bit

\* opts.feat after the options args, each clearing or setting the bit its
\* name names
RECURSIVE Applied(_, _)
Applied(args, feat) ==
    IF args = <<>> THEN feat
    ELSE Applied(Tail(args),
                 IF Head(args).opt = "d" THEN feat \ {OwnBit(Head(args).name)}
                 ELSE feat \cup {OwnBit(Head(args).name)})

\* C30: after a command line of -d and -e options with known names,
\* opts.feat is what main set with the bit of each name cleared or set in
\* turn, and no other bit changed
C30_NamedBitOnly ==
    (/\ pc = "parsed"
     /\ \A k \in DOMAIN input : input[k].opt \in {"d", "e"}) =>
        opts.feat = Applied(input, DefaultFeat)

====
